---- MODULE Spec2Model ----
(***************************************************************************)
(* A model of the agent-pool execution engine of src/agents.py: Agent,     *)
(* AgentPool and its three execution modes.                                *)
(*                                                                         *)
(* One caller drives the pool (as src/tests.py and src/main.py do): pool   *)
(* membership and the execution mode change only between pool calls.       *)
(* execute_sequential and execute_parallel are entered through             *)
(* AgentPool.execute; execute_hierarchical also directly, with a           *)
(* coordinator argument.                                                   *)
(* A pool call is split at its suspension points (each `await`), and       *)
(* Agent.execute is split between `self.state = "executing"` and the end   *)
(* of its try/except, so that the state "executing" is observable.         *)
(* Agent.execute itself contains no await: once started it runs to its end *)
(* before any other coroutine runs.  The order in which the event loop     *)
(* starts the coroutines handed to asyncio.gather is left open.            *)
(*                                                                         *)
(*                                                                         *)
(* SwarmOrchestrator (src/agents.py) runs a task on one of its named       *)
(* pools; MemoryManager, EvaluationEngine and SwarmGraph (src/graph.py)    *)
(* are the memory, the scoring and the five-stage pipeline.  Each          *)
(* component has its own specification (Spec, SpecRepeat, SpecOrch,        *)
(* SpecMem, SpecEval, SpecGraph); the variables of the components a        *)
(* specification does not exercise stay as constructed.                    *)
(*                                                                         *)
(* Wall-clock fields (duration, timestamp) of the records are left out.    *)
(***************************************************************************)
EXTENDS Naturals, Sequences, FiniteSets, TLC

\* ------------------------------------------------------------------ bounds
MaxCalls  == 1      \* pool calls one behaviour of Spec makes
MaxRepeat == 2      \* pool calls one behaviour of SpecRepeat makes
MaxTasks  == 2      \* execute_task calls one behaviour of SpecOrch makes
MaxMemOps == 3      \* storing or clearing calls one behaviour of SpecMem makes
MaxEvals  == 2      \* evaluate_output calls one behaviour of SpecEval makes
MaxRuns   == 3      \* runs one behaviour of SpecGraph makes
MaxExecs  == 2      \* Agent.execute calls one behaviour of SpecStats makes
MaxChurn  == 2      \* add_agent and remove_agent calls one behaviour of SpecChurn makes

\* ------------------------------------------------------- program constants
TaskPrefixLen == 100        \* task[:100]
SnippetLen    == 100        \* output[:100]
ScoreScale    == 1000       \* len(output) / 1000.0
TaskHeadLen   == 50         \* state['task'][:50]
DefaultTimeout == 30        \* AgentConfig.timeout

\* --------------------------------------------------------------- values
\* A Python value that is either None or a str.
None   == [kind |-> "none", s |-> ""]
Str(s) == [kind |-> "str", s |-> s]

\* Python truthiness of such a value: None and "" are falsy.
Truthy(v) == v.kind = "str" /\ v.s # ""

\* str(v), as an f-string formats the value.
Format(v) == IF v.kind = "none" THEN "None" ELSE v.s

Names      == {"", "A", "B"}
TaskInputs == {Str("t"), None}

\* AgentConfig.role: a member of AgentRole (it has .value) or, since the
\* dataclass validates nothing, a plain str (it has no .value).
RoleInputs == { [enum |-> TRUE,  value |-> "researcher"],
                [enum |-> FALSE, value |-> "researcher"] }

ExecutionMode == {"sequential", "parallel", "hierarchical"}
ModeInputs    == ExecutionMode \cup {"unknown"}

Min(a, b) == IF a <= b THEN a ELSE b

VARIABLES
    order,            \* AgentPool.agents: the dict's keys in insertion order
    agents,           \* AgentPool.agents: name -> Agent
    execution_mode,   \* AgentPool.execution_mode
    call,             \* the pool call in flight (its frame)
    running,          \* the Agent.execute in flight: <<name, task, slot>> or <<>>
    ret,              \* how the last pool call ended
    prevRet,          \* how the pool call before it ended
    trace,            \* history: start/end events of Agent.execute in this call
    logAtCall,        \* history: each agent's log length when the call began
    budget            \* bounding: pool calls the caller may still make

VARIABLES
    agent_pools,        \* SwarmOrchestrator.agent_pools: pool_name -> AgentPool
    execution_history,  \* SwarmOrchestrator.execution_history
    task_call,          \* the execute_task in flight (its frame)
    task_ret,           \* how the last execute_task ended
    taskSnap,           \* history: the orchestrator when that execute_task began
    okTasks             \* history: number of execute_task calls that returned

VARIABLES
    short_term,         \* MemoryManager.short_term: key -> {value, ttl}
    long_term,          \* MemoryManager.long_term: category -> bucket
    memory_index,       \* MemoryManager.memory_index: category -> keys
    memCalls,           \* history: the MemoryManager calls made, in order
    memOut              \* what the last MemoryManager call returned

VARIABLES
    evaluation_history, \* EvaluationEngine.evaluation_history
    evalOut             \* what the last EvaluationEngine call returned

VARIABLES
    state,              \* the SwarmState threaded through the graph
    node,               \* the graph node the run stands before
    statuses,           \* history: the values state["status"] has taken
    runOut,             \* the last SwarmGraph.run: its argument, what it returned
    ltAtRun,            \* history: memory.long_term when that run began
    runs                \* bounding: runs the caller may still start

poolVars  == <<order, agents, execution_mode, call, running, ret, prevRet,
               trace, logAtCall, budget>>
orchVars  == <<agent_pools, execution_history, task_call, task_ret, taskSnap,
               okTasks>>
memVars   == <<short_term, long_term, memory_index, memCalls, memOut>>
evalVars  == <<evaluation_history, evalOut>>
graphVars == <<state, node, statuses, runOut, ltAtRun, runs>>

VARIABLES
    durations,          \* the duration fields of each Agent's execution_log
    statsOut            \* what the last get_execution_stats returned

VARIABLES
    callers,            \* the frames of the coroutines that called pool.execute
    inflight,           \* the Agent.execute coroutines begun and not ended
    cpu                 \* the coroutine the event loop is running, if any

VARIABLES
    returned,           \* the states run has handed back, as the callers hold them
    racers              \* the frames of the threads inside _memory_update

statVars  == <<durations, statsOut>>
loopVars  == <<callers, inflight, cpu>>
shareVars == <<returned, racers>>

\* The variables only the specifications of single claims follow.
extraVars == <<statVars, loopVars, shareVars>>

vars == <<poolVars, orchVars, memVars, evalVars, graphVars, extraVars>>

\* ---------------------------------------------------------------- Agent
AgentConfig(name, role) == [name |-> name, role |-> role]

\* Agent.__init__
NewAgent(config) ==
    [config |-> config, execution_log |-> <<>>, memory |-> <<>>,
     state |-> "idle"]

\* Agent.store_memory (the timestamp is left out)
WithMemory(ag, key, value) ==
    [ag EXCEPT !.memory = (key :> [value |-> value]) @@ @]

\* task[:100]
TaskPrefix(s) == SubSeq(s, 1, Min(Len(s), TaskPrefixLen))

\* Does the body of the try block raise?  self.config.role.value raises
\* AttributeError for a role without .value; task[:100] raises TypeError for
\* a task that is not subscriptable.
ExecRaises(config, task) == ~config.role.enum \/ task.kind # "str"

\* str(e) of the exception raised (the f-string evaluates the role first).
ExecError(config, task) ==
    IF ~config.role.enum THEN "'str' object has no attribute 'value'"
    ELSE "'NoneType' object is not subscriptable"

\* The placeholder result string.
ExecResult(config, task) ==
    "Agent " \o config.name \o " (" \o config.role.value \o ") processed: "
        \o TaskPrefix(task.s)

\* What Agent.execute hands to its caller: a returned str or a raised error.
ExecOutcome(config, task) ==
    IF ExecRaises(config, task)
    THEN [ok |-> FALSE, value |-> ExecError(config, task)]
    ELSE [ok |-> TRUE,  value |-> ExecResult(config, task)]

\* Agent.execute, first statement.
ExecBegin(ag) == [ag EXCEPT !.state = "executing"]

\* The execution_log record of one attempt.
LogRecord(config, task) ==
    IF ExecRaises(config, task)
    THEN [task |-> task, error |-> ExecError(config, task), status |-> "failed"]
    ELSE [task |-> task, result |-> ExecResult(config, task), status |-> "completed"]

\* Mutant: the except branch forgets `self.state = "error"`.
StateAfter_AlwaysIdle(config, task) == "idle"

\* The agent's state when execute ends.
StateAfter(config, task) == IF ExecRaises(config, task) THEN "error" ELSE "idle"

\* Mutant: an agent that has failed once stays in state error.
ExecEnd_ErrorSticks(ag, task) ==
    [ag EXCEPT !.execution_log = Append(@, LogRecord(ag.config, task)),
               !.state = IF ag.state = "error"
                            \/ \E i \in DOMAIN ag.execution_log :
                                    ag.execution_log[i].status = "failed"
                         THEN "error"
                         ELSE StateAfter(ag.config, task)]

\* Agent.execute, the try/except to its end.
ExecEnd(ag, task) ==
    [ag EXCEPT !.execution_log = Append(@, LogRecord(ag.config, task)),
               !.state = StateAfter(ag.config, task)]

\* ------------------------------------------------------------ AgentPool
EmptyMap == <<>>

\* The frame of a pool call: where it stands (pc), how it was entered, its
\* arguments and its locals.
NoCall == [pc |-> "idle", entry |-> "", fn |-> "", task |-> None,
           coordArg |-> None, coordinator |-> None, pos |-> 0,
           coros |-> <<>>, responses |-> EmptyMap, results |-> EmptyMap]

\* What a finished pool call handed to its caller (kind "return" or
\* "raise"), with the call's arguments and the pool it ran on.
RetOf(kind, c, value) ==
    [kind |-> kind, entry |-> c.entry, fn |-> c.fn, task |-> c.task,
     coordArg |-> c.coordArg, coordinator |-> c.coordinator, value |-> value]

NoRet == RetOf("none", NoCall, EmptyMap)

Range(s) == {s[i] : i \in DOMAIN s}

RECURSIVE Without(_, _)
\* The sequence s without the element x.
Without(s, x) ==
    IF s = <<>> THEN <<>>
    ELSE IF Head(s) = x THEN Without(Tail(s), x)
    ELSE <<Head(s)>> \o Without(Tail(s), x)

\* ---- the components a specification does not exercise stay as constructed
\* SwarmOrchestrator.__init__
NoTask == [pc |-> "idle", pool_name |-> "", pool |-> "", task |-> None]

NoTaskRet == [kind |-> "none", pool |-> "", task |-> None, value |-> EmptyMap]

NoSnap == [history |-> <<>>, pools |-> EmptyMap]

OrchInit ==
    /\ agent_pools = EmptyMap
    /\ execution_history = <<>>
    /\ task_call = NoTask
    /\ task_ret = NoTaskRet
    /\ taskSnap = NoSnap
    /\ okTasks = 0

\* No MemoryManager call has returned anything yet.
NoMemOut == [op |-> "none", key |-> "", category |-> "", result |-> None]

\* MemoryManager.__init__
MemInit ==
    /\ short_term = EmptyMap
    /\ long_term = EmptyMap
    /\ memory_index = EmptyMap
    /\ memCalls = <<>>
    /\ memOut = NoMemOut

\* No EvaluationEngine call has returned anything yet.
NoEvalOut ==
    [op |-> "none", output |-> "", criteria |-> EmptyMap, kind |-> "none",
     result |-> [output |-> "", criteria_scores |-> EmptyMap,
                 overall_score |-> 0]]

\* EvaluationEngine.__init__
EvalInit ==
    /\ evaluation_history = <<>>
    /\ evalOut = NoEvalOut

\* A quotient of two counts, kept exact.
Quotient(num, den) == [num |-> num, den |-> den]

\* No get_execution_stats has returned anything yet.
NoStatsOut ==
    [op |-> "none", kind |-> "none",
     value |-> [agent_name |-> "", total_executions |-> 0, successful |-> 0,
                failed |-> 0, total_duration |-> 0,
                avg_duration |-> Quotient(0, 1)]]

\* Where no statistics are read the log's durations are not followed.
StatInit ==
    /\ durations = EmptyMap
    /\ statsOut = NoStatsOut

\* No coroutine has called the pool.
LoopInit ==
    /\ callers = EmptyMap
    /\ inflight = {}
    /\ cpu = <<>>

\* No run has returned; no thread is inside _memory_update.
ShareInit ==
    /\ returned = <<>>
    /\ racers = EmptyMap

ExtraInit == StatInit /\ LoopInit /\ ShareInit

\* No SwarmState: no run is in flight.
NoState ==
    [task |-> None, messages |-> <<>>, agent_results |-> EmptyMap,
     evaluation_results |-> EmptyMap, short_term_memory |-> EmptyMap,
     long_term_memory |-> EmptyMap, status |-> "none"]

\* No SwarmGraph.run has returned anything yet.
NoRunOut == [kind |-> "none", task |-> None, value |-> NoState]

\* SwarmGraph.__init__: no run in flight.
GraphInit ==
    /\ state = NoState
    /\ node = "none"
    /\ statuses = <<>>
    /\ runOut = NoRunOut
    /\ ltAtRun = EmptyMap
    /\ runs = 0

Init ==
    /\ OrchInit /\ MemInit /\ EvalInit /\ GraphInit /\ ExtraInit
    /\ order = <<>>
    /\ agents = EmptyMap
    /\ execution_mode = "sequential"
    /\ call = NoCall
    /\ running = <<>>
    /\ ret = NoRet
    /\ prevRet = NoRet
    /\ trace = <<>>
    /\ logAtCall = EmptyMap
    /\ budget = MaxCalls

\* The history variables describe the pool's latest calls on the pool as it
\* was called: a change of membership starts them afresh.
ForgetCall ==
    /\ ret' = NoRet
    /\ prevRet' = NoRet
    /\ trace' = <<>>
    /\ logAtCall' = EmptyMap

\* Mutant: a name the pool has keeps its agent (setdefault).
AddAgent_KeepsExisting(name, role) ==
    /\ call.pc = "idle"
    /\ agents' = agents @@ (name :> NewAgent(AgentConfig(name, role)))
    /\ order' = IF name \in DOMAIN agents THEN order ELSE Append(order, name)
    /\ ForgetCall
    /\ UNCHANGED <<execution_mode, call, running, budget>>

\* AgentPool.add_agent
AddAgent(name, role) ==
    /\ call.pc = "idle"
    /\ agents' = (name :> NewAgent(AgentConfig(name, role))) @@ agents
    /\ order' = IF name \in DOMAIN agents THEN order ELSE Append(order, name)
    /\ ForgetCall
    /\ UNCHANGED <<execution_mode, call, running, budget>>

\* AgentPool.remove_agent
RemoveAgent(name) ==
    /\ call.pc = "idle"
    /\ agents' = [n \in DOMAIN agents \ {name} |-> agents[n]]
    /\ order' = Without(order, name)
    /\ ForgetCall
    /\ UNCHANGED <<execution_mode, call, running, budget>>

\* AgentPool.set_execution_mode
SetExecutionMode(mode) ==
    /\ call.pc = "idle"
    /\ execution_mode' = mode
    /\ UNCHANGED <<order, agents, call, running, ret, prevRet, trace,
                   logAtCall, budget>>

\* ---- history bookkeeping shared by every entry point of the pool
BeginCall(events) ==
    /\ call.pc = "idle"
    /\ budget > 0
    /\ budget' = budget - 1
    /\ trace' = events
    /\ logAtCall' = [n \in DOMAIN agents |-> Len(agents[n].execution_log)]

\* The pool call in flight ends: `value` is returned (kind "return") or
\* raised (kind "raise") to the caller.
EndCall(kind, value) ==
    /\ ret' = RetOf(kind, call, value)
    /\ prevRet' = ret
    /\ call' = NoCall

\* ---- AgentPool.execute_sequential
\* results[agent_name] of the loop body, from what agent.execute handed back.
StatusEntry(out) ==
    IF out.ok THEN [status |-> "success", result |-> out.value]
    ELSE [status |-> "failed", error |-> out.value]

\* `results = {}` and the loop is entered.
StartSequential(entry, task) ==
    /\ BeginCall(<<>>)
    /\ call' = [NoCall EXCEPT !.pc = "seq", !.entry = entry,
                              !.fn = "execute_sequential",
                              !.task = task, !.pos = 1]
    /\ UNCHANGED <<order, agents, execution_mode, running, ret, prevRet>>

\* Mutant: the loop walks the dict from its last key.
SeqNext_Reversed(keys, pos) == keys[Len(keys) + 1 - pos]

\* The item of self.agents.items() the loop takes at its pos-th iteration.
SeqNext(keys, pos) == keys[pos]

\* The loop takes the next item of self.agents.items() and enters
\* agent.execute(task).
SeqIterate ==
    /\ call.pc = "seq"
    /\ running = <<>>
    /\ call.pos <= Len(order)
    /\ LET name == SeqNext(order, call.pos) IN
        /\ agents' = [agents EXCEPT ![name] = ExecBegin(@)]
        /\ running' = <<name, call.task, call.pos>>
        /\ trace' = Append(trace, <<"start", name, call.task>>)
    /\ UNCHANGED <<order, execution_mode, call, ret, prevRet, logAtCall, budget>>

\* The loop is exhausted: `return results`.
SeqReturn ==
    /\ call.pc = "seq"
    /\ running = <<>>
    /\ call.pos > Len(order)
    /\ EndCall("return", call.results)
    /\ UNCHANGED <<order, agents, execution_mode, running, trace, logAtCall,
                   budget>>

\* ---- asyncio.gather(*coros, return_exceptions=True)
\* Mutant: once a gathered coroutine has failed, the coroutines that have
\* not started are never started.
GatherStart_StopsAfterFailure(slot) ==
    /\ call.pc \in {"par", "hier_workers"}
    /\ running = <<>>
    /\ slot \in DOMAIN call.coros
    /\ slot \notin DOMAIN call.responses
    /\ \A done \in DOMAIN call.responses : call.responses[done].ok
    /\ LET name == call.coros[slot] IN
        /\ agents' = [agents EXCEPT ![name] = ExecBegin(@)]
        /\ running' = <<name, call.task, slot>>
        /\ trace' = Append(trace, <<"start", name, call.task>>)
    /\ UNCHANGED <<order, execution_mode, call, ret, prevRet, logAtCall, budget>>

\* The event loop starts one of the gathered coroutines that has not run.
GatherStart(slot) ==
    /\ call.pc \in {"par", "hier_workers"}
    /\ running = <<>>
    /\ slot \in DOMAIN call.coros
    /\ slot \notin DOMAIN call.responses
    /\ LET name == call.coros[slot] IN
        /\ agents' = [agents EXCEPT ![name] = ExecBegin(@)]
        /\ running' = <<name, call.task, slot>>
        /\ trace' = Append(trace, <<"start", name, call.task>>)
    /\ UNCHANGED <<order, execution_mode, call, ret, prevRet, logAtCall, budget>>

\* Mutant: the wait ends with the first coroutine that finishes.
GatherDone_FirstCompleted == DOMAIN call.responses # {}

\* Has every gathered coroutine finished?
GatherDone == DOMAIN call.responses = DOMAIN call.coros

\* Mutant: gather without return_exceptions: the first exception is the
\* outcome of the whole gather, so every entry reports it.
ZipResults_FailFast(keys, responses) ==
    [n \in {keys[i] : i \in DOMAIN keys \cap DOMAIN responses} |->
        LET i == CHOOSE j \in DOMAIN keys \cap DOMAIN responses : keys[j] = n
            bad == {j \in DOMAIN responses : ~responses[j].ok}
        IN IF bad = {} THEN StatusEntry(responses[i])
           ELSE StatusEntry(responses[CHOOSE j \in bad : \A k \in bad : j <= k])]

\* zip(keys, responses) folded into name -> status entry.
ZipResults(keys, responses) ==
    [n \in {keys[i] : i \in DOMAIN keys \cap DOMAIN responses} |->
        LET i == CHOOSE j \in DOMAIN keys \cap DOMAIN responses : keys[j] = n
        IN StatusEntry(responses[i])]

\* ---- AgentPool.execute_parallel
StartParallel(entry, task) ==
    /\ BeginCall(<<>>)
    /\ IF order = <<>>
       THEN \* `if tasks:` is false: return {}
            /\ ret' = RetOf("return",
                            [NoCall EXCEPT !.entry = entry,
                                           !.fn = "execute_parallel",
                                           !.task = task],
                            EmptyMap)
            /\ prevRet' = ret
            /\ call' = NoCall
       ELSE /\ call' = [NoCall EXCEPT !.pc = "par", !.entry = entry,
                                      !.fn = "execute_parallel",
                                      !.task = task, !.coros = order]
            /\ UNCHANGED <<ret, prevRet>>
    /\ UNCHANGED <<order, agents, execution_mode, running>>

\* gather has every response: the zip loop, then `return results`.
ParReturn ==
    /\ call.pc = "par"
    /\ running = <<>>
    /\ GatherDone
    /\ EndCall("return", ZipResults(order, call.responses))
    /\ UNCHANGED <<order, agents, execution_mode, running, trace, logAtCall,
                   budget>>

\* ---- AgentPool.execute_hierarchical
\* `if not coordinator and self.agents: coordinator = next(iter(keys))`
ResolveCoordinator(coordinator, keys) ==
    IF ~Truthy(coordinator) /\ keys # <<>> THEN Str(keys[1]) ELSE coordinator

\* `if coordinator and coordinator in self.agents`
HasCoordinator(coordinator, pool) ==
    Truthy(coordinator) /\ coordinator.s \in DOMAIN pool

\* f"Coordinate: {task}"
CoordinationTask(task) == Str("Coordinate: " \o Format(task))

\* Mutant: the except branch stores the error text as if it were a result.
CoordinatorEntry_ErrorAsResult(name, out) ==
    [agent |-> name, result |-> out.value]

\* results["coordinator"], from what the coordinator's execute handed back.
CoordinatorEntry(name, out) ==
    IF out.ok THEN [agent |-> name, result |-> out.value]
    ELSE [error |-> out.value]

\* Mutant: the comprehension drops `if name != coordinator`.
WorkerNames_All(keys, coordinator) == keys

\* worker_agents: the keys other than the coordinator, in insertion order.
WorkerNames(keys, coordinator) ==
    IF coordinator.kind = "str" THEN Without(keys, coordinator.s) ELSE keys

StartHierarchical(entry, task, coordinator) ==
    LET c == ResolveCoordinator(coordinator, order) IN
        IF HasCoordinator(c, agents)
        THEN \* the coordinator's execute is entered
             /\ BeginCall(<<<<"start", c.s, CoordinationTask(task)>>>>)
             /\ call' = [NoCall EXCEPT !.pc = "hier_coord", !.entry = entry,
                            !.fn = "execute_hierarchical", !.task = task,
                            !.coordArg = coordinator, !.coordinator = c]
             /\ agents' = [agents EXCEPT ![c.s] = ExecBegin(@)]
             /\ running' = <<c.s, CoordinationTask(task), 0>>
             /\ UNCHANGED <<order, execution_mode, ret, prevRet>>
        ELSE /\ BeginCall(<<>>)
             /\ call' = [NoCall EXCEPT !.pc = "hier_split", !.entry = entry,
                            !.fn = "execute_hierarchical", !.task = task,
                            !.coordArg = coordinator, !.coordinator = c]
             /\ UNCHANGED <<order, agents, execution_mode, running, ret, prevRet>>

\* Mutant: the worker part has no `if worker_agents:`; the workers section
\* is made also when there is no worker.
HierSplit_AlwaysGathers ==
    /\ call.pc = "hier_split"
    /\ running = <<>>
    /\ call' = [call EXCEPT !.pc = "hier_workers",
                            !.coros = WorkerNames(order, call.coordinator)]
    /\ UNCHANGED <<ret, prevRet>>
    /\ UNCHANGED <<order, agents, execution_mode, running, trace, logAtCall,
                   budget>>

\* The worker part: worker_agents is built; `if worker_agents:` hands the
\* workers' coroutines to gather, otherwise `return results`.
HierSplit ==
    /\ call.pc = "hier_split"
    /\ running = <<>>
    /\ LET workers == WorkerNames(order, call.coordinator) IN
        IF workers # <<>>
        THEN /\ call' = [call EXCEPT !.pc = "hier_workers", !.coros = workers]
             /\ UNCHANGED <<ret, prevRet>>
        ELSE EndCall("return", call.results)
    /\ UNCHANGED <<order, agents, execution_mode, running, trace, logAtCall,
                   budget>>

\* gather has every worker's response: results["workers"] is filled by the
\* zip loop over worker_agents.keys(), then `return results`.
HierReturn ==
    /\ call.pc = "hier_workers"
    /\ running = <<>>
    /\ GatherDone
    /\ EndCall("return",
               ("workers" :> ZipResults(call.coros, call.responses))
                   @@ call.results)
    /\ UNCHANGED <<order, agents, execution_mode, running, trace, logAtCall,
                   budget>>

\* ---- the running Agent.execute ends and its awaiter takes what it hands back
\* Mutant: the sequential loop has no try/except around agent.execute, so the
\* first failure ends the loop.
Resume_AbortOnFailure(c, name, slot, out) ==
    CASE c.pc = "seq" ->
            [c EXCEPT !.results = (name :> StatusEntry(out)) @@ @,
                      !.pos = IF out.ok THEN @ + 1 ELSE Len(order) + 1]
      [] c.pc \in {"par", "hier_workers"} ->
            [c EXCEPT !.responses = (slot :> out) @@ @]
      [] c.pc = "hier_coord" ->
            [c EXCEPT !.results = ("coordinator" :> CoordinatorEntry(name, out)),
                      !.pc = "hier_split"]

\* Mutant: the gathered responses are kept in completion order (as
\* asyncio.as_completed yields them), not in argument order.
Resume_CompletionOrder(c, name, slot, out) ==
    CASE c.pc = "seq" ->
            [c EXCEPT !.results = (name :> StatusEntry(out)) @@ @,
                      !.pos = @ + 1]
      [] c.pc \in {"par", "hier_workers"} ->
            [c EXCEPT !.responses =
                ((Cardinality(DOMAIN c.responses) + 1) :> out) @@ @]
      [] c.pc = "hier_coord" ->
            [c EXCEPT !.results = ("coordinator" :> CoordinatorEntry(name, out)),
                      !.pc = "hier_split"]

Resume(c, name, slot, out) ==
    CASE c.pc = "seq" ->
            [c EXCEPT !.results = (name :> StatusEntry(out)) @@ @,
                      !.pos = @ + 1]
      [] c.pc \in {"par", "hier_workers"} ->
            [c EXCEPT !.responses = (slot :> out) @@ @]
      [] c.pc = "hier_coord" ->
            [c EXCEPT !.results = ("coordinator" :> CoordinatorEntry(name, out)),
                      !.pc = "hier_split"]

AgentFinish ==
    /\ running # <<>>
    /\ LET name == running[1]
           task == running[2]
           slot == running[3]
       IN /\ agents' = [agents EXCEPT ![name] = ExecEnd(@, task)]
          /\ call' = Resume(call, name, slot,
                            ExecOutcome(agents[name].config, task))
          /\ trace' = Append(trace, <<"end", name, task>>)
    /\ running' = <<>>
    /\ UNCHANGED <<order, execution_mode, ret, prevRet, logAtCall, budget>>

\* ---- AgentPool.execute
\* The final else: raise ValueError.
RaiseUnknownMode(task) ==
    /\ BeginCall(<<>>)
    /\ ret' = RetOf("raise",
                    [NoCall EXCEPT !.entry = "execute", !.fn = "execute",
                                   !.task = task],
                    EmptyMap)
    /\ prevRet' = ret
    /\ UNCHANGED <<order, agents, execution_mode, call, running>>

\* Mutant: the final else falls back to the sequential mode.
Execute_DefaultsToSequential(task) ==
    CASE execution_mode = "parallel"     -> StartParallel("execute", task)
      [] execution_mode = "hierarchical" -> StartHierarchical("execute", task, None)
      [] OTHER                           -> StartSequential("execute", task)

Execute(task) ==
    CASE execution_mode = "sequential"   -> StartSequential("execute", task)
      [] execution_mode = "parallel"     -> StartParallel("execute", task)
      [] execution_mode = "hierarchical" -> StartHierarchical("execute", task, None)
      [] OTHER                           -> RaiseUnknownMode(task)

\* execute_hierarchical called directly, the one way to name a coordinator.
ExecuteHierarchical(task, coordinator) ==
    StartHierarchical("direct", task, coordinator)

CoordinatorInputs == {None} \cup {Str(n) : n \in Names}

\* The components the pool specifications leave alone.
PoolOnly == UNCHANGED <<orchVars, memVars, evalVars, graphVars, extraVars>>

Next ==
    \/ \E name \in Names, role \in RoleInputs : AddAgent(name, role) /\ PoolOnly
    \/ \E name \in Names : RemoveAgent(name) /\ PoolOnly
    \/ \E mode \in ModeInputs : SetExecutionMode(mode) /\ PoolOnly
    \/ \E task \in TaskInputs : Execute(task) /\ PoolOnly
    \/ \E task \in TaskInputs, c \in CoordinatorInputs :
            ExecuteHierarchical(task, c) /\ PoolOnly
    \/ SeqIterate /\ PoolOnly
    \/ SeqReturn /\ PoolOnly
    \/ \E slot \in DOMAIN call.coros : GatherStart(slot) /\ PoolOnly
    \/ ParReturn /\ PoolOnly
    \/ HierSplit /\ PoolOnly
    \/ HierReturn /\ PoolOnly
    \/ AgentFinish /\ PoolOnly

Spec == Init /\ [][Next]_vars

\* The steps of a pool call in flight: the event loop runs what is ready,
\* and an Agent.execute that was entered finishes.
CallSteps ==
    \/ SeqIterate /\ PoolOnly
    \/ SeqReturn /\ PoolOnly
    \/ \E slot \in DOMAIN call.coros : GatherStart(slot) /\ PoolOnly
    \/ ParReturn /\ PoolOnly
    \/ HierSplit /\ PoolOnly
    \/ HierReturn /\ PoolOnly
    \/ AgentFinish /\ PoolOnly

NextLive ==
    \/ \E name \in Names, role \in RoleInputs : AddAgent(name, role) /\ PoolOnly
    \/ \E mode \in ExecutionMode : SetExecutionMode(mode) /\ PoolOnly
    \/ \E task \in TaskInputs : Execute(task) /\ PoolOnly
    \/ SeqIterate /\ PoolOnly
    \/ SeqReturn /\ PoolOnly
    \/ \E slot \in DOMAIN call.coros : GatherStart(slot) /\ PoolOnly
    \/ ParReturn /\ PoolOnly
    \/ HierSplit /\ PoolOnly
    \/ HierReturn /\ PoolOnly
    \/ AgentFinish /\ PoolOnly

\* A caller that adds agents, sets one of the three modes and calls
\* pool.execute, on a running event loop.
SpecLive == Init /\ [][NextLive]_vars /\ WF_vars(CallSteps)

\* ---- repeated calls on one pool
\* The pools add_agent builds: keys in any insertion order, any configs.
InsertionOrders ==
    {q \in UNION {[1..n -> Names] : n \in 0..Cardinality(Names)} :
        \A i, j \in DOMAIN q : i # j => q[i] # q[j]}

InitRepeat ==
    /\ OrchInit /\ MemInit /\ EvalInit /\ GraphInit /\ ExtraInit
    /\ order \in InsertionOrders
    /\ agents \in {[n \in Range(order) |-> NewAgent(AgentConfig(n, r[n]))] :
                    r \in [Range(order) -> RoleInputs]}
    /\ execution_mode = "sequential"
    /\ call = NoCall
    /\ running = <<>>
    /\ ret = NoRet
    /\ prevRet = NoRet
    /\ trace = <<>>
    /\ logAtCall = EmptyMap
    /\ budget = MaxRepeat

NextRepeat ==
    \/ \E mode \in ModeInputs : SetExecutionMode(mode) /\ PoolOnly
    \/ \E task \in TaskInputs : Execute(task) /\ PoolOnly
    \/ SeqIterate /\ PoolOnly
    \/ SeqReturn /\ PoolOnly
    \/ \E slot \in DOMAIN call.coros : GatherStart(slot) /\ PoolOnly
    \/ ParReturn /\ PoolOnly
    \/ HierSplit /\ PoolOnly
    \/ HierReturn /\ PoolOnly
    \/ AgentFinish /\ PoolOnly

\* One caller makes up to MaxRepeat calls of execute on a pool it has built,
\* changing the mode between them.
SpecRepeat == InitRepeat /\ [][NextRepeat]_vars

\* ---- Agent.get_execution_stats
\* Durations are wall-clock differences: whole seconds here.
DurationInputs == {0, 3}

RECURSIVE SumSeq(_)
\* sum(...) over a list of numbers
SumSeq(q) == IF q = <<>> THEN 0 ELSE q[1] + SumSeq(Tail(q))

\* The number of log records with the given status.
CountStatus(log, status) ==
    Cardinality({i \in DOMAIN log : log[i].status = status})

\* Mutant: the average is taken whatever the log holds.
ExecutionStats_Unguarded(ag, ds) ==
    [kind |-> IF ag.execution_log = <<>> THEN "raise" ELSE "return",
     value |-> [agent_name |-> ag.config.name,
                total_executions |-> Len(ag.execution_log),
                successful |-> CountStatus(ag.execution_log, "completed"),
                failed |-> CountStatus(ag.execution_log, "failed"),
                total_duration |-> SumSeq(ds),
                avg_duration |->
                    IF ag.execution_log # <<>>
                    THEN Quotient(SumSeq(ds), Len(ag.execution_log))
                    ELSE Quotient(0, 1)]]

\* get_execution_stats, lines 99-111, on an agent whose log records have the
\* durations ds.
ExecutionStats(ag, ds) ==
    [kind |-> "return",
     value |-> [agent_name |-> ag.config.name,
                total_executions |-> Len(ag.execution_log),
                successful |-> CountStatus(ag.execution_log, "completed"),
                failed |-> CountStatus(ag.execution_log, "failed"),
                total_duration |-> SumSeq(ds),
                avg_duration |->
                    IF ag.execution_log # <<>>
                    THEN Quotient(SumSeq(ds), Len(ag.execution_log))
                    ELSE Quotient(0, 1)]]

\* Agent.execute called on the agent itself, start to end (it has no await),
\* taking `duration` on the clock.
AgentExecute(name, task, duration) ==
    /\ name \in DOMAIN agents
    /\ budget > 0
    /\ budget' = budget - 1
    /\ agents' = [agents EXCEPT ![name] = ExecEnd(ExecBegin(@), task)]
    /\ durations' = [durations EXCEPT ![name] = Append(@, duration)]
    /\ statsOut' = NoStatsOut
    /\ UNCHANGED <<order, execution_mode, call, running, ret, prevRet, trace,
                   logAtCall>>
    /\ UNCHANGED <<orchVars, memVars, evalVars, graphVars, loopVars, shareVars>>

\* Agent.get_execution_stats
GetExecutionStats(name) ==
    /\ name \in DOMAIN agents
    /\ LET stats == ExecutionStats(agents[name], durations[name]) IN
       statsOut' = [op |-> "get_execution_stats", kind |-> stats.kind,
                    value |-> stats.value]
    /\ UNCHANGED durations
    /\ UNCHANGED <<poolVars, orchVars, memVars, evalVars, graphVars, loopVars,
                   shareVars>>

\* AgentConfig with its timeout (seconds): the default and none at all.
TimeoutInputs == {0, DefaultTimeout}

TimedConfig(name, role, timeout) ==
    [name |-> name, role |-> role, timeout |-> timeout]

InitStats ==
    /\ OrchInit /\ MemInit /\ EvalInit /\ GraphInit /\ LoopInit /\ ShareInit
    /\ order \in {o \in InsertionOrders : Range(o) \subseteq {"A", "B"}}
    /\ agents \in {[n \in Range(order) |->
                        NewAgent(TimedConfig(n, r[n], t[n]))] :
                    r \in [Range(order) -> RoleInputs],
                    t \in [Range(order) -> TimeoutInputs]}
    /\ durations = [n \in Range(order) |-> <<>>]
    /\ statsOut = NoStatsOut
    /\ execution_mode = "sequential"
    /\ call = NoCall
    /\ running = <<>>
    /\ ret = NoRet
    /\ prevRet = NoRet
    /\ trace = <<>>
    /\ logAtCall = EmptyMap
    /\ budget = MaxExecs

NextStats ==
    \/ \E name \in Names, task \in TaskInputs, duration \in DurationInputs :
            AgentExecute(name, task, duration)
    \/ \E name \in Names : GetExecutionStats(name)

\* One caller makes up to MaxExecs execute calls on the agents it has built
\* and reads their statistics.
SpecStats == InitStats /\ [][NextStats]_vars

\* ---- agents with memories and logs, added again and removed
MemberNames == {"A", "B"}

\* agent.store_memory(key, value) on an agent of the pool; one entry is
\* followed per agent.
StoreMemory(name, key, value) ==
    /\ call.pc = "idle"
    /\ name \in DOMAIN agents
    /\ agents[name].memory = <<>>
    /\ agents' = [agents EXCEPT ![name] = WithMemory(@, key, value)]
    /\ UNCHANGED <<order, execution_mode, call, running, ret, prevRet, trace,
                   logAtCall, budget>>

NextMembers ==
    \/ \E name \in MemberNames, role \in RoleInputs :
            AddAgent(name, role) /\ PoolOnly
    \/ \E name \in MemberNames : RemoveAgent(name) /\ PoolOnly
    \/ \E name \in MemberNames : StoreMemory(name, "k", Str("x")) /\ PoolOnly
    \/ \E task \in TaskInputs : Execute(task) /\ PoolOnly
    \/ SeqIterate /\ PoolOnly
    \/ SeqReturn /\ PoolOnly
    \/ AgentFinish /\ PoolOnly

\* One caller builds a pool, writes to its agents' memories, runs up to
\* MaxCalls tasks on it, and adds and removes agents in between.
SpecMembers == Init /\ [][NextMembers]_vars

\* ---- overlapping pool.execute calls on one event loop
\* Two coroutines (two requests of src/webserver.py) call pool.execute on the
\* same pool in parallel mode.  The event loop runs one coroutine at a time,
\* from one suspension point to the next: execute_parallel suspends at its
\* gather, and Agent.execute is split at its first statement only to make
\* the state "executing" visible.
LoopCallers == {1, 2}

NoCaller == [pc |-> "ready", task |-> None, coros |-> <<>>,
             responses |-> EmptyMap, results |-> EmptyMap]

\* Mutant: Agent.execute awaits its model between its first statement and
\* its try block, as an execute that calls the LLM would.
ExecuteSuspends_AwaitsModel == TRUE

\* Agent.execute, lines 55-72: there is no await in its body.
ExecuteSuspends == FALSE

\* execute_parallel, lines 158-165, up to the await of gather.
LoopCall(c, task) ==
    /\ cpu = <<>>
    /\ callers[c].pc = "ready"
    /\ callers' = [callers EXCEPT ![c] =
            IF order = <<>>
            THEN [@ EXCEPT !.pc = "done", !.task = task]
            ELSE [@ EXCEPT !.pc = "waiting", !.task = task, !.coros = order]]
    /\ UNCHANGED <<inflight, cpu, statVars, shareVars>>
    /\ UNCHANGED <<poolVars, orchVars, memVars, evalVars, graphVars>>

\* The event loop starts a gathered Agent.execute: self.state = "executing".
LoopBegin(c, slot) ==
    /\ cpu = <<>>
    /\ callers[c].pc = "waiting"
    /\ slot \in DOMAIN callers[c].coros
    /\ slot \notin DOMAIN callers[c].responses
    /\ <<c, slot>> \notin inflight
    /\ agents' = [agents EXCEPT ![callers[c].coros[slot]] = ExecBegin(@)]
    /\ inflight' = inflight \cup {<<c, slot>>}
    /\ cpu' = IF ExecuteSuspends THEN <<>> ELSE <<c, slot>>
    /\ UNCHANGED <<callers, statVars, shareVars>>
    /\ UNCHANGED <<order, execution_mode, call, running, ret, prevRet, trace,
                   logAtCall, budget>>
    /\ UNCHANGED <<orchVars, memVars, evalVars, graphVars>>

\* That Agent.execute runs to its end and gather takes what it hands back.
LoopEnd(c, slot) ==
    /\ <<c, slot>> \in inflight
    /\ cpu \in {<<>>, <<c, slot>>}
    /\ ExecuteSuspends \/ cpu = <<c, slot>>
    /\ LET name == callers[c].coros[slot]
           task == callers[c].task
       IN  /\ agents' = [agents EXCEPT ![name] = ExecEnd(@, task)]
           /\ callers' = [callers EXCEPT ![c].responses =
                    (slot :> ExecOutcome(agents[name].config, task)) @@ @]
    /\ inflight' = inflight \ {<<c, slot>>}
    /\ cpu' = <<>>
    /\ UNCHANGED <<statVars, shareVars>>
    /\ UNCHANGED <<order, execution_mode, call, running, ret, prevRet, trace,
                   logAtCall, budget>>
    /\ UNCHANGED <<orchVars, memVars, evalVars, graphVars>>

\* execute_parallel, lines 167-179: gather is done; zip and return.
LoopReturn(c) ==
    /\ cpu = <<>>
    /\ callers[c].pc = "waiting"
    /\ DOMAIN callers[c].responses = DOMAIN callers[c].coros
    /\ callers' = [callers EXCEPT ![c] =
            [@ EXCEPT !.pc = "done",
                      !.results = ZipResults(order, callers[c].responses)]]
    /\ UNCHANGED <<inflight, cpu, statVars, shareVars>>
    /\ UNCHANGED <<poolVars, orchVars, memVars, evalVars, graphVars>>

InitLoop ==
    /\ OrchInit /\ MemInit /\ EvalInit /\ GraphInit /\ StatInit /\ ShareInit
    /\ order \in {o \in InsertionOrders : Range(o) \subseteq {"A", "B"}}
    /\ agents \in {[n \in Range(order) |-> NewAgent(AgentConfig(n, r[n]))] :
                    r \in [Range(order) -> RoleInputs]}
    /\ callers = [c \in LoopCallers |-> NoCaller]
    /\ inflight = {}
    /\ cpu = <<>>
    /\ execution_mode = "parallel"
    /\ call = NoCall
    /\ running = <<>>
    /\ ret = NoRet
    /\ prevRet = NoRet
    /\ trace = <<>>
    /\ logAtCall = EmptyMap
    /\ budget = 0

NextLoop ==
    \/ \E c \in LoopCallers, task \in TaskInputs : LoopCall(c, task)
    \/ \E c \in LoopCallers, slot \in 1..Len(order) : LoopBegin(c, slot)
    \/ \E c \in LoopCallers, slot \in 1..Len(order) : LoopEnd(c, slot)
    \/ \E c \in LoopCallers : LoopReturn(c)

\* Two coroutines each call pool.execute once on a pool built beforehand.
SpecLoop == InitLoop /\ [][NextLoop]_vars

\* ---- the pool's membership changes while execute_parallel waits
\* One coroutine is inside execute_parallel; while it waits in its gather,
\* other coroutines of the event loop (requests such as /api/agents/add of
\* src/webserver.py) call add_agent and remove_agent on the same pool.  The
\* coroutines in `tasks` were made from the Agent objects the pool held at
\* line 159: `attached` tells whether the pool still holds that object.
Gatherer == 1

\* execute_parallel, lines 158-165, up to the await of gather.
ChurnCall(task) ==
    /\ callers[Gatherer].pc = "ready"
    /\ callers' = [callers EXCEPT ![Gatherer] =
            IF order = <<>>
            THEN [@ EXCEPT !.pc = "done", !.task = task]
            ELSE [@ EXCEPT !.pc = "waiting", !.task = task, !.coros = order,
                           !.configs = [i \in DOMAIN order |->
                                            agents[order[i]].config],
                           !.attached = [i \in DOMAIN order |-> TRUE]]]
    /\ UNCHANGED <<inflight, cpu, statVars, shareVars>>
    /\ UNCHANGED <<poolVars, orchVars, memVars, evalVars, graphVars>>

\* The event loop runs one gathered Agent.execute, start to end (it has no
\* await), on the Agent object the coroutine was made from.
ChurnRun(slot) ==
    /\ callers[Gatherer].pc = "waiting"
    /\ slot \in DOMAIN callers[Gatherer].coros
    /\ slot \notin DOMAIN callers[Gatherer].responses
    /\ LET c    == callers[Gatherer]
           name == c.coros[slot]
       IN  /\ callers' = [callers EXCEPT ![Gatherer].responses =
                    (slot :> ExecOutcome(c.configs[slot], c.task)) @@ @]
           /\ agents' = IF c.attached[slot]
                        THEN [agents EXCEPT
                                ![name] = ExecEnd(ExecBegin(@), c.task)]
                        ELSE agents
    /\ UNCHANGED <<inflight, cpu, statVars, shareVars>>
    /\ UNCHANGED <<order, execution_mode, call, running, ret, prevRet, trace,
                   logAtCall, budget>>
    /\ UNCHANGED <<orchVars, memVars, evalVars, graphVars>>

\* The pool no longer holds the Agent object the coroutines of `name` were
\* made from.
Detached(c, name) ==
    [c EXCEPT !.attached = [i \in DOMAIN @ |-> @[i] /\ c.coros[i] # name]]

\* AgentPool.add_agent, called by another coroutine.
ChurnAdd(name, role) ==
    /\ budget > 0
    /\ budget' = budget - 1
    /\ agents' = (name :> NewAgent(AgentConfig(name, role))) @@ agents
    /\ order' = IF name \in DOMAIN agents THEN order ELSE Append(order, name)
    /\ callers' = [callers EXCEPT ![Gatherer] = Detached(@, name)]
    /\ UNCHANGED <<inflight, cpu, statVars, shareVars>>
    /\ UNCHANGED <<execution_mode, call, running, ret, prevRet, trace,
                   logAtCall>>
    /\ UNCHANGED <<orchVars, memVars, evalVars, graphVars>>

\* AgentPool.remove_agent, called by another coroutine.
ChurnRemove(name) ==
    /\ budget > 0
    /\ budget' = budget - 1
    /\ agents' = [n \in DOMAIN agents \ {name} |-> agents[n]]
    /\ order' = Without(order, name)
    /\ callers' = [callers EXCEPT ![Gatherer] = Detached(@, name)]
    /\ UNCHANGED <<inflight, cpu, statVars, shareVars>>
    /\ UNCHANGED <<execution_mode, call, running, ret, prevRet, trace,
                   logAtCall>>
    /\ UNCHANGED <<orchVars, memVars, evalVars, graphVars>>

\* execute_parallel, lines 167-179: gather is done; the responses are
\* zipped with self.agents.keys() as the dict is now, and returned.
ChurnReturn ==
    /\ callers[Gatherer].pc = "waiting"
    /\ DOMAIN callers[Gatherer].responses = DOMAIN callers[Gatherer].coros
    /\ callers' = [callers EXCEPT ![Gatherer] =
            [@ EXCEPT !.pc = "done",
                      !.results = ZipResults(order,
                                             callers[Gatherer].responses)]]
    /\ UNCHANGED <<inflight, cpu, statVars, shareVars>>
    /\ UNCHANGED <<poolVars, orchVars, memVars, evalVars, graphVars>>

InitChurn ==
    /\ OrchInit /\ MemInit /\ EvalInit /\ GraphInit /\ StatInit /\ ShareInit
    /\ order \in {o \in InsertionOrders : Range(o) \subseteq {"A", "B"}}
    /\ agents \in {[n \in Range(order) |-> NewAgent(AgentConfig(n, r[n]))] :
                    r \in [Range(order) -> RoleInputs]}
    /\ callers = [c \in {Gatherer} |->
                    [pc |-> "ready", task |-> None, coros |-> <<>>,
                     configs |-> <<>>, attached |-> <<>>,
                     responses |-> EmptyMap, results |-> EmptyMap]]
    /\ inflight = {}
    /\ cpu = <<>>
    /\ execution_mode = "parallel"
    /\ call = NoCall
    /\ running = <<>>
    /\ ret = NoRet
    /\ prevRet = NoRet
    /\ trace = <<>>
    /\ logAtCall = EmptyMap
    /\ budget = MaxChurn

NextChurn ==
    \/ \E task \in TaskInputs : ChurnCall(task)
    \/ \E slot \in 1..Cardinality(Names) : ChurnRun(slot)
    \/ \E name \in Names, role \in RoleInputs : ChurnAdd(name, role)
    \/ \E name \in Names : ChurnRemove(name)
    \/ ChurnReturn

\* One execute_parallel call on a pool built beforehand, with up to MaxChurn
\* membership changes made by other coroutines before, during and after it.
SpecChurn == InitChurn /\ [][NextChurn]_vars

\* ------------------------------------------------------ SwarmOrchestrator
\* While an execute_task is in flight, order, agents and execution_mode are
\* the AgentPool its local `pool` refers to; the pool's steps are those of
\* AgentPool.execute above.  Between calls the pools live in agent_pools.
PoolNames == {"p", "q"}

NewPool == [order |-> <<>>, agents |-> EmptyMap, execution_mode |-> "sequential"]

\* The pools a caller builds through create_pool(...).add_agent(...) and
\* set_execution_mode before it submits tasks.
OrchAgentNames == {"A", "B"}

OrchModes == {"sequential", "parallel", "unknown"}

BuiltPools ==
    {[order |-> q,
      agents |-> [n \in Range(q) |->
                    NewAgent(AgentConfig(n, CHOOSE r \in RoleInputs : r.enum))],
      execution_mode |-> m] :
        q \in {o \in InsertionOrders : Range(o) \subseteq OrchAgentNames},
        m \in OrchModes}

\* Mutant: an unknown name falls back to some registered pool.
GetPool_FallsBack(pools, pool_name) ==
    IF pool_name \in DOMAIN pools THEN Str(pool_name)
    ELSE IF DOMAIN pools # {} THEN Str(CHOOSE n \in DOMAIN pools : TRUE)
    ELSE None

\* SwarmOrchestrator.get_pool: dict.get, None for an unknown name.  The pool
\* is handed back by reference, here by the name it is registered under.
GetPool(pools, pool_name) ==
    IF pool_name \in DOMAIN pools THEN Str(pool_name) ELSE None

\* Mutant: a registered name keeps its pool (setdefault).
CreatePool_KeepsExisting(pool_name) ==
    /\ task_call.pc = "idle"
    /\ agent_pools' = agent_pools @@ (pool_name :> NewPool)
    /\ task_ret' = NoTaskRet
    /\ taskSnap' = NoSnap
    /\ UNCHANGED <<execution_history, task_call, okTasks>>
    /\ UNCHANGED <<poolVars, memVars, evalVars, graphVars, extraVars>>

\* SwarmOrchestrator.create_pool: a fresh pool replaces any pool of that name.
CreatePool(pool_name) ==
    /\ task_call.pc = "idle"
    /\ agent_pools' = (pool_name :> NewPool) @@ agent_pools
    /\ task_ret' = NoTaskRet
    /\ taskSnap' = NoSnap
    /\ UNCHANGED <<execution_history, task_call, okTasks>>
    /\ UNCHANGED <<poolVars, memVars, evalVars, graphVars, extraVars>>

\* execute_task, lines 277-281: look the pool up; raise when there is none.
ExecuteTaskEnter(pool_name, task) ==
    /\ task_call.pc = "idle"
    /\ budget > 0
    /\ taskSnap' = [history |-> execution_history, pools |-> agent_pools]
    /\ LET pool == GetPool(agent_pools, pool_name) IN
       IF ~Truthy(pool)
       THEN /\ task_ret' = [kind |-> "raise", pool |-> pool_name,
                            task |-> task, value |-> EmptyMap]
            /\ budget' = budget - 1
            /\ UNCHANGED <<task_call, order, agents, execution_mode>>
       ELSE /\ task_call' = [pc |-> "found", pool_name |-> pool_name,
                             pool |-> pool.s, task |-> task]
            /\ task_ret' = NoTaskRet
            /\ order' = agent_pools[pool.s].order
            /\ agents' = agent_pools[pool.s].agents
            /\ execution_mode' = agent_pools[pool.s].execution_mode
            /\ UNCHANGED budget
    /\ ForgetCall
    /\ UNCHANGED <<call, running>>
    /\ UNCHANGED <<agent_pools, execution_history, okTasks>>
    /\ UNCHANGED <<memVars, evalVars, graphVars, extraVars>>

\* execute_task, line 282: enter pool.execute(task).
ExecuteTaskCall ==
    /\ task_call.pc = "found"
    /\ Execute(task_call.task)
    /\ task_call' = [task_call EXCEPT !.pc = "awaiting"]
    /\ UNCHANGED <<agent_pools, execution_history, task_ret, taskSnap, okTasks>>
    /\ UNCHANGED <<memVars, evalVars, graphVars, extraVars>>

\* The agents of the pool the call ran on are the objects agent_pools refers
\* to: what they logged is in the orchestrator's pool.
PoolNow == [order |-> order, agents |-> agents, execution_mode |-> execution_mode]

\* Mutant: the record is appended whether pool.execute returned or raised.
ExecuteTaskEnd_LogsFailures ==
    /\ task_call.pc = "awaiting"
    /\ call.pc = "idle"
    /\ ret.kind \in {"return", "raise"}
    /\ LET execution_record == [pool |-> task_call.pool_name,
                                task |-> task_call.task,
                                result |-> ret.value] IN
       /\ execution_history' = Append(execution_history, execution_record)
       /\ task_ret' = [kind |-> ret.kind, pool |-> task_call.pool_name,
                       task |-> task_call.task,
                       value |-> IF ret.kind = "return" THEN execution_record
                                 ELSE EmptyMap]
       /\ okTasks' = IF ret.kind = "return" THEN okTasks + 1 ELSE okTasks
    /\ agent_pools' = [agent_pools EXCEPT ![task_call.pool] = PoolNow]
    /\ task_call' = NoTask
    /\ order' = <<>>
    /\ agents' = EmptyMap
    /\ execution_mode' = "sequential"
    /\ ForgetCall
    /\ UNCHANGED <<call, running, budget, taskSnap>>
    /\ UNCHANGED <<memVars, evalVars, graphVars, extraVars>>

\* execute_task, lines 283-295: pool.execute is over.  What it raised goes on
\* to the caller; what it returned is recorded, appended and returned.
ExecuteTaskEnd ==
    /\ task_call.pc = "awaiting"
    /\ call.pc = "idle"
    /\ ret.kind \in {"return", "raise"}
    /\ IF ret.kind = "raise"
       THEN /\ task_ret' = [kind |-> "raise", pool |-> task_call.pool_name,
                            task |-> task_call.task, value |-> EmptyMap]
            /\ UNCHANGED <<execution_history, okTasks>>
       ELSE LET execution_record == [pool |-> task_call.pool_name,
                                     task |-> task_call.task,
                                     result |-> ret.value] IN
            /\ execution_history' = Append(execution_history, execution_record)
            /\ task_ret' = [kind |-> "return", pool |-> task_call.pool_name,
                            task |-> task_call.task, value |-> execution_record]
            /\ okTasks' = okTasks + 1
    /\ agent_pools' = [agent_pools EXCEPT ![task_call.pool] = PoolNow]
    /\ task_call' = NoTask
    /\ order' = <<>>
    /\ agents' = EmptyMap
    /\ execution_mode' = "sequential"
    /\ ForgetCall
    /\ UNCHANGED <<call, running, budget, taskSnap>>
    /\ UNCHANGED <<memVars, evalVars, graphVars, extraVars>>

\* SwarmOrchestrator.get_orchestration_stats()["total_executions"]
TotalExecutions == Len(execution_history)

\* The pool's own steps, taken inside an execute_task.
InTask == UNCHANGED <<orchVars, memVars, evalVars, graphVars, extraVars>>

InitOrch ==
    /\ MemInit /\ EvalInit /\ GraphInit /\ ExtraInit
    /\ agent_pools \in UNION {[d -> BuiltPools] : d \in SUBSET PoolNames}
    /\ execution_history = <<>>
    /\ task_call = NoTask
    /\ task_ret = NoTaskRet
    /\ taskSnap = NoSnap
    /\ okTasks = 0
    /\ order = <<>>
    /\ agents = EmptyMap
    /\ execution_mode = "sequential"
    /\ call = NoCall
    /\ running = <<>>
    /\ ret = NoRet
    /\ prevRet = NoRet
    /\ trace = <<>>
    /\ logAtCall = EmptyMap
    /\ budget = MaxTasks

NextOrch ==
    \/ \E pool_name \in PoolNames : CreatePool(pool_name)
    \/ \E pool_name \in PoolNames, task \in TaskInputs :
            ExecuteTaskEnter(pool_name, task)
    \/ ExecuteTaskCall
    \/ SeqIterate /\ InTask
    \/ SeqReturn /\ InTask
    \/ \E slot \in DOMAIN call.coros : GatherStart(slot) /\ InTask
    \/ ParReturn /\ InTask
    \/ AgentFinish /\ InTask
    \/ ExecuteTaskEnd

\* One caller submits up to MaxTasks tasks to an orchestrator whose pools it
\* has built, creating fresh pools between tasks.
SpecOrch == InitOrch /\ [][NextOrch]_vars

\* ---------------------------------------------------------- MemoryManager
\* A Python dict whose iteration order matters: the keys in the order of
\* their first insertion, and the entry of each key.
EmptyDict == [order |-> <<>>, data |-> EmptyMap]

\* d[k] = v
DictSet(d, k, v) ==
    [order |-> IF k \in DOMAIN d.data THEN d.order ELSE Append(d.order, k),
     data  |-> (k :> v) @@ d.data]

\* Optional[int]: None or an int.
NoTtl == [given |-> FALSE, n |-> 0]

Ttl(n) == [given |-> TRUE, n |-> n]

\* str.lower() of one character.
LowerChar(c) ==
    CASE c = "A" -> "a" [] c = "B" -> "b" [] c = "C" -> "c" [] c = "D" -> "d"
      [] c = "E" -> "e" [] c = "F" -> "f" [] c = "G" -> "g" [] c = "H" -> "h"
      [] c = "I" -> "i" [] c = "J" -> "j" [] c = "K" -> "k" [] c = "L" -> "l"
      [] c = "M" -> "m" [] c = "N" -> "n" [] c = "O" -> "o" [] c = "P" -> "p"
      [] c = "Q" -> "q" [] c = "R" -> "r" [] c = "S" -> "s" [] c = "T" -> "t"
      [] c = "U" -> "u" [] c = "V" -> "v" [] c = "W" -> "w" [] c = "X" -> "x"
      [] c = "Y" -> "y" [] c = "Z" -> "z" [] OTHER -> c

RECURSIVE Lower(_)
\* str.lower()
Lower(str) ==
    IF Len(str) = 0 THEN ""
    ELSE LowerChar(SubSeq(str, 1, 1)) \o Lower(SubSeq(str, 2, Len(str)))

\* `sub in str` on two strs
Contains(sub, str) ==
    /\ Len(sub) <= Len(str)
    /\ \E i \in 1..(Len(str) - Len(sub) + 1) :
            SubSeq(str, i, i + Len(sub) - 1) = sub

\* Mutant: the keys are compared as they are written.
KeyMatches_CaseSensitive(query, key) == Contains(query, key)

\* search_memory, line 79
KeyMatches(query, key) == Contains(Lower(query), Lower(key))

\* store_short_term, lines 36-40 (the timestamp is left out)
WithShortTerm(st, key, value, ttl) ==
    (key :> [value |-> value, ttl |-> ttl]) @@ st

\* Mutant: an entry stored with a time to live is taken to have expired.
ReadShortTerm_Expiring(st, key) ==
    IF key \in DOMAIN st /\ ~st[key].ttl.given THEN st[key].value ELSE None

\* retrieve_short_term, lines 44-51: the TTL branch is `pass`.
ReadShortTerm(st, key) ==
    IF key \in DOMAIN st THEN st[key].value ELSE None

\* store_long_term, lines 55-61
WithLongTerm(lt, key, value, category) ==
    LET known == IF category \in DOMAIN lt THEN lt
                 ELSE (category :> EmptyDict) @@ lt
    IN  [known EXCEPT ![category] = DictSet(@, key, [value |-> value])]

\* Mutant: a key is indexed once.
WithIndex_Deduplicated(idx, key, category) ==
    LET known == IF category \in DOMAIN idx THEN idx
                 ELSE (category :> <<>>) @@ idx
    IN  [known EXCEPT ![category] =
            IF key \in Range(@) THEN @ ELSE Append(@, key)]

\* store_long_term, lines 64-66
WithIndex(idx, key, category) ==
    LET known == IF category \in DOMAIN idx THEN idx
                 ELSE (category :> <<>>) @@ idx
    IN  [known EXCEPT ![category] = Append(@, key)]

\* Mutant: the key is looked up in every category.
ReadLongTerm_AnyCategory(lt, key, category) ==
    IF \E c \in DOMAIN lt : key \in DOMAIN lt[c].data
    THEN LET c == IF category \in DOMAIN lt /\ key \in DOMAIN lt[category].data
                  THEN category
                  ELSE CHOOSE c \in DOMAIN lt : key \in DOMAIN lt[c].data
         IN  lt[c].data[key].value
    ELSE None

\* retrieve_long_term, lines 70-72
ReadLongTerm(lt, key, category) ==
    IF category \in DOMAIN lt /\ key \in DOMAIN lt[category].data
    THEN lt[category].data[key].value
    ELSE None

\* search_memory, lines 76-81: the (key, value) pairs in the bucket's order.
Search(lt, query, category) ==
    IF category \in DOMAIN lt
    THEN LET hits == SelectSeq(lt[category].order,
                               LAMBDA key : KeyMatches(query, key))
         IN  [i \in 1..Len(hits) |->
                <<hits[i], lt[category].data[hits[i]].value>>]
    ELSE <<>>

MemKeys == {"Ab", "b"}

MemValues == {Str("x"), Str("y")}

TtlInputs == {NoTtl, Ttl(60)}

Categories == {"general", "tasks"}

Queries == {"", "a", "B"}

\* Only the memory changes.
MemOnly == UNCHANGED <<poolVars, orchVars, evalVars, graphVars, extraVars>>

\* A call that changes the memory returns None.
Mutates(op, key, value, ttl, category) ==
    /\ Len(memCalls) < MaxMemOps
    /\ memCalls' = Append(memCalls, [op |-> op, key |-> key, value |-> value,
                                     ttl |-> ttl, category |-> category])
    /\ memOut' = NoMemOut

\* A call that reads the memory.  Reads leave the memory as it is, so what
\* a read returns does not depend on the reads before it: the caller makes
\* one read between two storing calls.
Reads(op, key, category, result) ==
    /\ memOut.op = "none"
    /\ memOut' = [op |-> op, key |-> key, category |-> category,
                  result |-> result]
    /\ UNCHANGED <<short_term, long_term, memory_index, memCalls>>

\* MemoryManager.store_short_term
StoreShortTerm(key, value, ttl) ==
    /\ Mutates("store_short_term", key, value, ttl, "")
    /\ short_term' = WithShortTerm(short_term, key, value, ttl)
    /\ UNCHANGED <<long_term, memory_index>>
    /\ MemOnly

\* MemoryManager.retrieve_short_term
RetrieveShortTerm(key) ==
    /\ Reads("retrieve_short_term", key, "", ReadShortTerm(short_term, key))
    /\ MemOnly

\* MemoryManager.store_long_term
StoreLongTerm(key, value, category) ==
    /\ Mutates("store_long_term", key, value, NoTtl, category)
    /\ long_term' = WithLongTerm(long_term, key, value, category)
    /\ memory_index' = WithIndex(memory_index, key, category)
    /\ UNCHANGED short_term
    /\ MemOnly

\* MemoryManager.retrieve_long_term
RetrieveLongTerm(key, category) ==
    /\ Reads("retrieve_long_term", key, category,
             ReadLongTerm(long_term, key, category))
    /\ MemOnly

\* MemoryManager.search_memory
SearchMemory(query, category) ==
    /\ Reads("search_memory", query, category,
             Search(long_term, query, category))
    /\ MemOnly

\* Mutant: the whole memory is cleared.
ClearShortTerm_Everything ==
    /\ Mutates("clear_short_term", "", None, NoTtl, "")
    /\ short_term' = EmptyMap
    /\ long_term' = EmptyMap
    /\ memory_index' = EmptyMap
    /\ MemOnly

\* MemoryManager.clear_short_term
ClearShortTerm ==
    /\ Mutates("clear_short_term", "", None, NoTtl, "")
    /\ short_term' = EmptyMap
    /\ UNCHANGED <<long_term, memory_index>>
    /\ MemOnly

InitMem ==
    /\ OrchInit /\ MemInit /\ EvalInit /\ GraphInit /\ ExtraInit
    /\ order = <<>>
    /\ agents = EmptyMap
    /\ execution_mode = "sequential"
    /\ call = NoCall
    /\ running = <<>>
    /\ ret = NoRet
    /\ prevRet = NoRet
    /\ trace = <<>>
    /\ logAtCall = EmptyMap
    /\ budget = 0

NextMem ==
    \/ \E key \in MemKeys, value \in MemValues, ttl \in TtlInputs :
            StoreShortTerm(key, value, ttl)
    \/ \E key \in MemKeys : RetrieveShortTerm(key)
    \/ \E key \in MemKeys, value \in MemValues, category \in Categories :
            StoreLongTerm(key, value, category)
    \/ \E key \in MemKeys, category \in Categories :
            RetrieveLongTerm(key, category)
    \/ \E query \in Queries, category \in Categories :
            SearchMemory(query, category)
    \/ ClearShortTerm

\* One caller makes up to MaxMemOps storing or clearing calls on a fresh
\* MemoryManager, reading it in between.
SpecMem == InitMem /\ [][NextMem]_vars

\* ------------------------------------------------------- EvaluationEngine
\* Scores are the floats of the source taken as exact numbers, counted in
\* units of 1/ScoreScale: len(output) / 1000.0 is Len(output) units.
RECURSIVE Repeat(_, _)
\* str * n
Repeat(str, n) ==
    IF n = 0 THEN ""
    ELSE LET half == Repeat(str, n \div 2) IN
         IF n % 2 = 0 THEN half \o half ELSE half \o half \o str

\* evaluate_output, line 115
Snippet(output) ==
    IF Len(output) > SnippetLen
    THEN SubSeq(output, 1, SnippetLen) \o "..."
    ELSE output

\* Mutant: the score is not capped.
Score_Uncapped(output) == Len(output)

\* evaluate_output, lines 126-127: min(len(output) / 1000.0, 1.0)
Score(output) == Min(Len(output), ScoreScale)

\* Mutant: the scores are computed and averaged whatever criteria holds.
Evaluation_Unguarded(output, criteria) ==
    LET total_score == Cardinality(DOMAIN criteria) * Score(output) IN
    IF Cardinality(DOMAIN criteria) = 0
    THEN [kind |-> "raise",
          value |-> [output |-> Snippet(output),
                     criteria_scores |-> EmptyMap,
                     overall_score |-> 0]]
    ELSE [kind |-> "return",
          value |-> [output |-> Snippet(output),
                     criteria_scores |-> [c \in DOMAIN criteria |-> Score(output)],
                     overall_score |->
                        total_score \div Cardinality(DOMAIN criteria)]]

\* evaluate_output, lines 114-131: the evaluation it builds.  `if criteria:`
\* keeps the division away from an empty mapping.
Evaluation(output, criteria) ==
    LET total_score == Cardinality(DOMAIN criteria) * Score(output) IN
    [kind |-> "return",
     value |-> IF DOMAIN criteria # {}
               THEN [output |-> Snippet(output),
                     criteria_scores |-> [c \in DOMAIN criteria |-> Score(output)],
                     overall_score |->
                        total_score \div Cardinality(DOMAIN criteria)]
               ELSE [output |-> Snippet(output),
                     criteria_scores |-> EmptyMap,
                     overall_score |-> 0]]

OutputLens == {0, 100, 101, 500, 1000, 1500}

OutputInputs == {Repeat("x", n) : n \in OutputLens}

CriteriaInputs ==
    {EmptyMap,
     "relevance" :> "Is it relevant?",
     ("relevance" :> "Is it relevant?") @@ ("completeness" :> "Is it complete?"),
     ("relevance" :> "Is it relevant?") @@ ("completeness" :> "Is it complete?")
        @@ ("accuracy" :> "Is it accurate?")}

\* EvaluationEngine.evaluate_output: a call that raises appends nothing.
EvaluateOutput(output, criteria) ==
    /\ Len(evaluation_history) < MaxEvals
    /\ LET e == Evaluation(output, criteria) IN
       /\ evaluation_history' = IF e.kind = "return"
                                THEN Append(evaluation_history, e.value)
                                ELSE evaluation_history
       /\ evalOut' = [op |-> "evaluate_output", output |-> output,
                      criteria |-> criteria, kind |-> e.kind,
                      result |-> e.value]
    /\ UNCHANGED <<poolVars, orchVars, memVars, graphVars, extraVars>>

InitEval ==
    /\ OrchInit /\ MemInit /\ EvalInit /\ GraphInit /\ ExtraInit
    /\ order = <<>>
    /\ agents = EmptyMap
    /\ execution_mode = "sequential"
    /\ call = NoCall
    /\ running = <<>>
    /\ ret = NoRet
    /\ prevRet = NoRet
    /\ trace = <<>>
    /\ logAtCall = EmptyMap
    /\ budget = 0

RECURSIVE SumScores(_)
\* sum(scores) over a list of evaluations
SumScores(evaluations) ==
    IF evaluations = <<>> THEN 0
    ELSE evaluations[1].overall_score + SumScores(Tail(evaluations))

\* batch_evaluate, lines 147-149: 0.0 unless there are evaluations.
AverageScore(evaluations) ==
    IF evaluations # <<>>
    THEN Quotient(SumScores(evaluations), Len(evaluations))
    ELSE Quotient(0, 1)

\* Mutant: the outputs are evaluated last to first.
BatchOutcomes_Reversed(outputs, criteria) ==
    [i \in 1..Len(outputs) |->
        Evaluation(outputs[Len(outputs) + 1 - i], criteria)]

\* batch_evaluate, lines 143-145: evaluate_output on each output in turn.
BatchOutcomes(outputs, criteria) ==
    [i \in 1..Len(outputs) |-> Evaluation(outputs[i], criteria)]

\* EvaluationEngine.batch_evaluate: an evaluate_output that raises ends the
\* batch, the evaluations made before it staying in the history.
BatchEvaluate(outputs, criteria) ==
    /\ Len(evaluation_history) + Len(outputs) <= MaxEvals
    /\ LET outcomes == BatchOutcomes(outputs, criteria)
           raising == {i \in DOMAIN outcomes : outcomes[i].kind = "raise"}
           made == IF raising = {} THEN Len(outputs)
                   ELSE (CHOOSE i \in raising : \A j \in raising : i <= j) - 1
           evaluations == [i \in 1..made |-> outcomes[i].value]
       IN
       /\ evaluation_history' = evaluation_history \o evaluations
       /\ evalOut' = [op |-> "batch_evaluate", outputs |-> outputs,
                      criteria |-> criteria,
                      kind |-> IF raising = {} THEN "return" ELSE "raise",
                      result |-> [evaluations |-> evaluations,
                                  average_score |-> AverageScore(evaluations)]]
    /\ UNCHANGED <<poolVars, orchVars, memVars, graphVars, extraVars>>

BatchInputs == UNION {[1..n -> OutputInputs] : n \in 0..MaxEvals}

NextEval ==
    \/ \E output \in OutputInputs, criteria \in CriteriaInputs :
            EvaluateOutput(output, criteria)
    \/ \E outputs \in BatchInputs, criteria \in CriteriaInputs :
            BatchEvaluate(outputs, criteria)

\* One caller has up to MaxEvals outputs evaluated on a fresh engine, one by
\* one or in batches.
SpecEval == InitEval /\ [][NextEval]_vars

\* ------------------------------------------------------------- SwarmGraph
\* The compiled graph of _build_graph: run enters at the entry point and
\* follows the one edge leaving each node, up to END.  A run is synchronous:
\* the caller gets control back when the run has returned.
EntryPoint == "process_input"

\* Mutant: agent_execution leads to memory_update.
Edge_SkipsEvaluation ==
    [n \in {"process_input", "agent_execution", "evaluation", "memory_update",
            "aggregate_results"} |->
        CASE n = "process_input"     -> "agent_execution"
          [] n = "agent_execution"   -> "memory_update"
          [] n = "evaluation"        -> "memory_update"
          [] n = "memory_update"     -> "aggregate_results"
          [] n = "aggregate_results" -> "END"]

\* _build_graph, lines 184-188: add_edge
Edge ==
    [n \in {"process_input", "agent_execution", "evaluation", "memory_update",
            "aggregate_results"} |->
        CASE n = "process_input"     -> "agent_execution"
          [] n = "agent_execution"   -> "evaluation"
          [] n = "evaluation"        -> "memory_update"
          [] n = "memory_update"     -> "aggregate_results"
          [] n = "aggregate_results" -> "END"]

\* str[:n]
Prefix(str, n) == SubSeq(str, 1, Min(Len(str), n))

HumanMessage(content) == [type |-> "human", content |-> content]

AIMessage(content) == [type |-> "ai", content |-> content]

\* Mutant: the count is that of the categories, len(self.memory.long_term).
TasksFiled_Categories(lt) == Cardinality(DOMAIN lt)

\* len(self.memory.long_term.get('tasks', {}))
TasksFiled(lt) ==
    IF "tasks" \in DOMAIN lt THEN Cardinality(DOMAIN lt["tasks"].data) ELSE 0

\* Mutant: every run files its task under the same key.
TaskKey_Fixed(lt) == "task_" \o ToString(0)

\* _memory_update, line 232
TaskKey(lt) == "task_" \o ToString(TasksFiled(lt))

\* Mutant: a stage's exception is swallowed and the graph moves on.
Fails_Continues(n, after) ==
    /\ node = n
    /\ state' = after
    /\ statuses' = IF after.status = state.status THEN statuses
                   ELSE Append(statuses, after.status)
    /\ node' = Edge[n]
    /\ UNCHANGED <<runOut, ltAtRun, runs>>
    /\ UNCHANGED <<extraVars, poolVars, orchVars>>

\* A node has raised: self.graph.invoke (line 267) has no handler and no
\* retry policy, so the exception leaves the graph with the node's writes
\* to the state so far.
Fails(n, after) ==
    /\ node = n
    /\ state' = after
    /\ statuses' = IF after.status = state.status THEN statuses
                   ELSE Append(statuses, after.status)
    /\ node' = "raised"
    /\ UNCHANGED <<runOut, ltAtRun, runs>>
    /\ UNCHANGED <<extraVars, poolVars, orchVars>>

\* HumanMessage(content=...), line 197: a message of a str is built; what
\* the message class does with any other content is the library's choice,
\* to reject it (raise) or to take it.
MessageOutcomes(content) ==
    IF content.kind = "str" THEN {"built"} ELSE {"built", "raises"}

\* state['task'][:50], lines 209 and 251: slicing needs a str.
Sliceable(task) == task.kind = "str"

\* A node has run: the graph moves along the node's edge.
Moves(n, after) ==
    /\ node = n
    /\ state' = after
    /\ statuses' = IF after.status = state.status THEN statuses
                   ELSE Append(statuses, after.status)
    /\ node' = Edge[n]
    /\ UNCHANGED <<runOut, ltAtRun, runs>>
    /\ UNCHANGED <<extraVars, poolVars, orchVars>>

\* SwarmGraph.run up to the entry point: a fresh initial state.
Run(task) ==
    /\ node = "none"
    /\ runs > 0
    /\ runs' = runs - 1
    /\ state' = [task |-> task, messages |-> <<>>, agent_results |-> EmptyMap,
                 evaluation_results |-> EmptyMap,
                 short_term_memory |-> EmptyMap,
                 long_term_memory |-> EmptyMap, status |-> "initialized"]
    /\ statuses' = <<"initialized">>
    /\ node' = EntryPoint
    /\ runOut' = [kind |-> "running", task |-> task, value |-> NoState]
    /\ ltAtRun' = long_term
    /\ UNCHANGED <<extraVars, poolVars, orchVars, memVars, evalVars>>

\* SwarmGraph._process_input
NodeProcessInput ==
    \E outcome \in MessageOutcomes(state.task) :
        IF outcome = "raises"
        THEN /\ Fails("process_input", state)
             /\ UNCHANGED <<memVars, evalVars>>
        ELSE /\ Moves("process_input",
                      [state EXCEPT
                          !.messages = Append(@, HumanMessage(state.task)),
                          !.status = "input_processed"])
             /\ short_term' = WithShortTerm(short_term, "current_task",
                                            state.task, NoTtl)
             /\ memCalls' = Append(memCalls,
                                   [op |-> "store_short_term",
                                    key |-> "current_task",
                                    value |-> state.task, ttl |-> NoTtl,
                                    category |-> ""])
             /\ memOut' = NoMemOut
             /\ UNCHANGED <<long_term, memory_index, evalVars>>

\* SwarmGraph._agent_execution
NodeAgentExecution ==
    /\ IF Sliceable(state.task)
       THEN Moves("agent_execution",
                  [state EXCEPT
                      !.status = "agents_executed",
                      !.agent_results =
                           [primary_agent |->
                               "Processing: "
                               \o Prefix(state.task.s, TaskHeadLen) \o "..."]])
       ELSE Fails("agent_execution",
                  [state EXCEPT !.status = "agents_executed"])
    /\ UNCHANGED <<memVars, evalVars>>

\* state["agent_results"].get("primary_agent", "")
PrimaryOutput(st) ==
    IF "primary_agent" \in DOMAIN st.agent_results
    THEN st.agent_results.primary_agent
    ELSE ""

StageCriteria ==
    ("relevance" :> "Is it relevant?") @@ ("completeness" :> "Is it complete?")

\* SwarmGraph._evaluation
NodeEvaluation ==
    LET output == PrimaryOutput(state)
        eval_result == Evaluation(output, StageCriteria)
    IN  /\ Moves("evaluation",
                 [state EXCEPT !.evaluation_results = eval_result.value,
                               !.status = "evaluated"])
        /\ evaluation_history' = Append(evaluation_history, eval_result.value)
        /\ evalOut' = [op |-> "evaluate_output", output |-> output,
                       criteria |-> StageCriteria, kind |-> eval_result.kind,
                       result |-> eval_result.value]
        /\ UNCHANGED memVars

\* SwarmGraph._memory_update
NodeMemoryUpdate ==
    LET key == TaskKey(long_term)
        value == [task |-> state.task, results |-> state.agent_results,
                  evaluation |-> state.evaluation_results]
        stored == WithLongTerm(long_term, key, value, "tasks")
    IN  /\ long_term' = stored
        /\ memory_index' = WithIndex(memory_index, key, "tasks")
        /\ memCalls' = Append(memCalls,
                              [op |-> "store_long_term", key |-> key,
                               value |-> value, ttl |-> NoTtl,
                               category |-> "tasks"])
        /\ memOut' = NoMemOut
        /\ Moves("memory_update",
                 [state EXCEPT !.short_term_memory = short_term,
                               !.long_term_memory = stored,
                               !.status = "memory_updated"])
        /\ UNCHANGED <<short_term, evalVars>>

\* SwarmGraph._aggregate_results
NodeAggregateResults ==
    /\ IF Sliceable(state.task)
       THEN Moves("aggregate_results",
                  [state EXCEPT
                      !.status = "completed",
                      !.messages =
                           Append(@, AIMessage(
                               "Task completed: "
                               \o Prefix(state.task.s, TaskHeadLen) \o "..."))])
       ELSE Fails("aggregate_results", [state EXCEPT !.status = "completed"])
    /\ UNCHANGED <<memVars, evalVars>>

\* SwarmGraph.run, lines 267-268: invoke has reached END and run returns.
RunReturn ==
    /\ node = "END"
    /\ runOut' = [runOut EXCEPT !.kind = "return", !.value = state]
    /\ returned' = Append(returned, state)
    /\ node' = "none"
    /\ state' = NoState
    /\ UNCHANGED <<statuses, ltAtRun, runs>>
    /\ UNCHANGED <<statVars, loopVars, racers>>
    /\ UNCHANGED <<poolVars, orchVars, memVars, evalVars>>

\* A state that run handed back, as its holder reads it now.  Line 243,
\* self.memory.long_term.copy(), copies the outer dict only: each category of
\* the copy is the MemoryManager's own bucket, the dict store_long_term
\* writes into (line 58).  Line 242 copies short_term the same way, but
\* store_short_term replaces an entry (line 36) and writes into none.
Held(st) ==
    [st EXCEPT !.long_term_memory = [c \in DOMAIN @ |-> long_term[c]]]

\* SwarmGraph.run, line 267: the exception of a node leaves invoke and run;
\* the caller gets the exception and no state.
RunRaise ==
    /\ node = "raised"
    /\ runOut' = [runOut EXCEPT !.kind = "raise"]
    /\ node' = "none"
    /\ state' = NoState
    /\ UNCHANGED <<statuses, ltAtRun, runs>>
    /\ UNCHANGED <<extraVars, poolVars, orchVars, memVars, evalVars>>

RunTasks == {Str(""), Str("demo task"), Str(Repeat("t", TaskHeadLen + 1))}

\* run(task: str) checks no type: a caller can pass what is not a str.
FailingTasks == {None}

InitGraph ==
    /\ OrchInit /\ MemInit /\ EvalInit /\ ExtraInit
    /\ state = NoState
    /\ node = "none"
    /\ statuses = <<>>
    /\ runOut = NoRunOut
    /\ ltAtRun = EmptyMap
    /\ runs = MaxRuns
    /\ order = <<>>
    /\ agents = EmptyMap
    /\ execution_mode = "sequential"
    /\ call = NoCall
    /\ running = <<>>
    /\ ret = NoRet
    /\ prevRet = NoRet
    /\ trace = <<>>
    /\ logAtCall = EmptyMap
    /\ budget = 0

\* What a run does between its start and its return.
Stages ==
    \/ NodeProcessInput
    \/ NodeAgentExecution
    \/ NodeEvaluation
    \/ NodeMemoryUpdate
    \/ NodeAggregateResults
    \/ RunReturn

NextGraph ==
    \/ \E task \in RunTasks : Run(task)
    \/ NodeProcessInput
    \/ NodeAgentExecution
    \/ NodeEvaluation
    \/ NodeMemoryUpdate
    \/ NodeAggregateResults
    \/ RunReturn

\* One caller makes up to MaxRuns runs, one after the other, on a fresh
\* SwarmGraph whose memory and evaluator it does not touch itself.
SpecGraph == InitGraph /\ [][NextGraph]_vars

NextGraphFail ==
    \/ \E task \in RunTasks \cup FailingTasks : Run(task)
    \/ NodeProcessInput
    \/ NodeAgentExecution
    \/ NodeEvaluation
    \/ NodeMemoryUpdate
    \/ NodeAggregateResults
    \/ RunReturn
    \/ RunRaise

\* The same caller, whose tasks can also be values that are not a str.
SpecGraphFail == InitGraph /\ [][NextGraphFail]_vars

\* Keys a caller of MemoryManager may pick for its own entries.
DirectKeys == {"task_0", "task_1"}

NextGraphStore ==
    \/ \E task \in RunTasks : Run(task)
    \/ NodeProcessInput
    \/ NodeAgentExecution
    \/ NodeEvaluation
    \/ NodeMemoryUpdate
    \/ NodeAggregateResults
    \/ RunReturn
    \/ \E key \in DirectKeys, value \in MemValues :
            node = "none" /\ StoreLongTerm(key, value, "tasks")

\* The caller also stores entries of its own in the pipeline's memory,
\* graph.memory.store_long_term(key, value, "tasks"), between its runs.
SpecGraphStore == InitGraph /\ [][NextGraphStore]_vars

\* A run is synchronous code with no loop and no wait: once started, each of
\* its stages is taken.
SpecGraphLive == SpecGraph /\ WF_vars(Stages)

\* ------------------------------------------- runs on more than one thread
\* run is synchronous, so two runs on one SwarmGraph overlap only when their
\* callers are threads.  A thread can be switched out between any two steps
\* of _memory_update; the one followed here is between line 232, which reads
\* the count for the key, and the call of store_long_term with that key.
Racers == {1, 2}

\* The SwarmState of a run that stands before memory_update: what
\* process_input, agent_execution and evaluation have made of its task.
BeforeMemoryUpdate(task) ==
    LET output == "Processing: " \o Prefix(task.s, TaskHeadLen) \o "..." IN
    [task |-> task, messages |-> <<HumanMessage(task)>>,
     agent_results |-> [primary_agent |-> output],
     evaluation_results |-> Evaluation(output, StageCriteria).value,
     short_term_memory |-> EmptyMap, long_term_memory |-> EmptyMap,
     status |-> "evaluated"]

\* _memory_update, lines 233-237: the record filed for a run.
Filed(st) ==
    [task |-> st.task, results |-> st.agent_results,
     evaluation |-> st.evaluation_results]

EarlierTask == Str("demo task")

\* The memory and the evaluator after n runs made one after the other.
RECURSIVE Earlier(_)
Earlier(n) ==
    IF n = 0
    THEN [long_term |-> EmptyMap, memory_index |-> EmptyMap,
          evaluation_history |-> <<>>]
    ELSE LET before == Earlier(n - 1)
             st == BeforeMemoryUpdate(EarlierTask)
             key == TaskKey(before.long_term)
         IN  [long_term |->
                    WithLongTerm(before.long_term, key, Filed(st), "tasks"),
              memory_index |-> WithIndex(before.memory_index, key, "tasks"),
              evaluation_history |->
                    Append(before.evaluation_history, st.evaluation_results)]

\* _memory_update, line 232: the key is built from the count read now.
RaceCount(r) ==
    /\ racers[r].pc = "ready"
    /\ racers' = [racers EXCEPT
                    ![r].pc = "counted",
                    ![r].key = TaskKey(long_term),
                    ![r].overlap = \E o \in Racers \ {r} :
                                        racers[o].pc = "counted"]
    /\ UNCHANGED <<poolVars, orchVars, memVars, evalVars, graphVars>>
    /\ UNCHANGED <<statVars, loopVars, returned>>

\* Mutant: the count is read again when the record is stored.
RaceStore_Recounts(r) ==
    /\ racers[r].pc = "counted"
    /\ LET key == TaskKey(long_term)
           value == Filed(racers[r].state)
           stored == WithLongTerm(long_term, key, value, "tasks")
       IN  /\ long_term' = stored
           /\ memory_index' = WithIndex(memory_index, key, "tasks")
           /\ memCalls' = Append(memCalls,
                                 [op |-> "store_long_term", key |-> key,
                                  value |-> value, ttl |-> NoTtl,
                                  category |-> "tasks"])
           /\ memOut' = NoMemOut
           /\ racers' = [racers EXCEPT
                           ![r].pc = "stored",
                           ![r].key = key,
                           ![r].state =
                                [@ EXCEPT !.short_term_memory = short_term,
                                          !.long_term_memory = stored,
                                          !.status = "memory_updated"]]
    /\ UNCHANGED <<short_term, poolVars, orchVars, evalVars, graphVars>>
    /\ UNCHANGED <<statVars, loopVars, returned>>

\* _memory_update, lines 231-245, from the call of store_long_term on: the
\* record is stored under the key built before, then come the snapshots
\* and the status.
RaceStore(r) ==
    /\ racers[r].pc = "counted"
    /\ LET key == racers[r].key
           value == Filed(racers[r].state)
           stored == WithLongTerm(long_term, key, value, "tasks")
       IN  /\ long_term' = stored
           /\ memory_index' = WithIndex(memory_index, key, "tasks")
           /\ memCalls' = Append(memCalls,
                                 [op |-> "store_long_term", key |-> key,
                                  value |-> value, ttl |-> NoTtl,
                                  category |-> "tasks"])
           /\ memOut' = NoMemOut
           /\ racers' = [racers EXCEPT
                           ![r].pc = "stored",
                           ![r].state =
                                [@ EXCEPT !.short_term_memory = short_term,
                                          !.long_term_memory = stored,
                                          !.status = "memory_updated"]]
    /\ UNCHANGED <<short_term, poolVars, orchVars, evalVars, graphVars>>
    /\ UNCHANGED <<statVars, loopVars, returned>>

\* Two threads have each taken a run up to memory_update, on a SwarmGraph
\* on which up to MaxRuns - 2 runs were made before; the run named last was
\* the last to pass process_input and evaluation.
InitRace ==
    /\ OrchInit /\ GraphInit /\ StatInit /\ LoopInit
    /\ returned = <<>>
    /\ racers \in [Racers -> {[pc |-> "ready", state |-> BeforeMemoryUpdate(t),
                                key |-> "", overlap |-> FALSE] :
                               t \in RunTasks}]
    /\ \E n \in 0..(MaxRuns - 2), last \in Racers :
            LET first == CHOOSE o \in Racers : o # last IN
            /\ long_term = Earlier(n).long_term
            /\ memory_index = Earlier(n).memory_index
            /\ evaluation_history =
                    Earlier(n).evaluation_history
                        \o <<racers[first].state.evaluation_results,
                             racers[last].state.evaluation_results>>
            /\ short_term = WithShortTerm(EmptyMap, "current_task",
                                          racers[last].state.task, NoTtl)
    /\ memCalls = <<>>
    /\ memOut = NoMemOut
    /\ evalOut = NoEvalOut
    /\ order = <<>>
    /\ agents = EmptyMap
    /\ execution_mode = "sequential"
    /\ call = NoCall
    /\ running = <<>>
    /\ ret = NoRet
    /\ prevRet = NoRet
    /\ trace = <<>>
    /\ logAtCall = EmptyMap
    /\ budget = 0

NextRace ==
    \/ \E r \in Racers : RaceCount(r)
    \/ \E r \in Racers : RaceStore(r)

\* The two threads go through _memory_update, switched at will.
SpecRace == InitRace /\ [][NextRace]_vars

\* ================================================================ claims
Pool == Range(order)

Last(q) == q[Len(q)]

\* The pool call `fn` has just ended and the caller has done nothing since.
JustEnded(fn) == call.pc = "idle" /\ ret.kind # "none" /\ ret.fn = fn

\* Agent n ran once in the current (or just ended) pool call.
RanOnce(n) ==
    /\ agents[n].state # "executing"
    /\ Len(agents[n].execution_log) = logAtCall[n] + 1

\* Agent n has entered execute in the current pool call.
Entered(n) ==
    \/ agents[n].state = "executing"
    \/ Len(agents[n].execution_log) > logAtCall[n]

\* What the awaiter of the Agent.execute that just ended holds in frame c,
\* where pc was the awaiter's position when it ended.
Handed(pc, c, name, slot) ==
    CASE pc = "seq" ->
            LET e == c.results[name] IN
            IF e.status = "success" THEN [ok |-> TRUE, value |-> e.result]
            ELSE [ok |-> FALSE, value |-> e.error]
      [] pc = "hier_coord" ->
            LET e == c.results["coordinator"] IN
            IF "result" \in DOMAIN e THEN [ok |-> TRUE, value |-> e.result]
            ELSE [ok |-> FALSE, value |-> e.error]
      [] OTHER -> c.responses[slot]

\* C1: every Agent.execute, succeeding or failing, appends exactly one record
\* to the agent's execution_log (completed on success, failed on failure) and
\* leaves the state idle on success and error on failure; on failure its
\* caller receives the error.  A log changes in no other step, except that
\* add_agent installs a fresh agent.
C1_ExecuteLogsOnce ==
    [][ /\ (running # <<>> /\ running' = <<>>) =>
            LET n   == running[1]
                log == agents[n].execution_log
                rec == Last(agents'[n].execution_log)
                got == Handed(call.pc, call', n, running[3])
            IN /\ agents'[n].execution_log = Append(log, rec)
               /\ rec.task = running[2]
               /\ rec.status \in {"completed", "failed"}
               /\ rec.status = "completed" =>
                    /\ agents'[n].state = "idle"
                    /\ got = [ok |-> TRUE, value |-> rec.result]
               /\ rec.status = "failed" =>
                    /\ agents'[n].state = "error"
                    /\ got = [ok |-> FALSE, value |-> rec.error]
        /\ \A n \in DOMAIN agents \cap DOMAIN agents' :
            agents'[n].execution_log # agents[n].execution_log =>
                \/ running # <<>> /\ running[1] = n /\ running' = <<>>
                \/ agents'[n] = NewAgent(agents'[n].config)
      ]_vars

\* C1 witness: in one pool, an agent whose execute failed (one failed
\* record, state error) and an agent whose execute succeeded (one completed
\* record, state idle).
C1_Witness ==
    \E m, n \in Pool :
        /\ Len(agents[m].execution_log) = 1
        /\ agents[m].execution_log[1].status = "failed"
        /\ agents[m].state = "error"
        /\ Len(agents[n].execution_log) = 1
        /\ agents[n].execution_log[1].status = "completed"
        /\ agents[n].state = "idle"

\* C2: when execute_sequential returns, the result mapping holds one entry
\* for every agent of the pool: {failed, error} for each agent whose execute
\* raised, {success, result} for each other; and every agent has run once,
\* also those after a failing one.
C2_SequentialIsolation ==
    JustEnded("execute_sequential") =>
        /\ ret.kind = "return"
        /\ DOMAIN ret.value = Pool
        /\ \A n \in Pool :
            LET rec == Last(agents[n].execution_log) IN
            /\ RanOnce(n)
            /\ rec.task = ret.task
            /\ rec.status = "failed" =>
                ret.value[n] = [status |-> "failed", error |-> rec.error]
            /\ rec.status = "completed" =>
                ret.value[n] = [status |-> "success", result |-> rec.result]

\* C2 witness: a sequential call has returned, its first agent failed and
\* its second agent succeeded.
C2_Witness ==
    /\ JustEnded("execute_sequential")
    /\ Len(order) >= 2
    /\ ret.value[order[1]].status = "failed"
    /\ ret.value[order[2]].status = "success"

\* C3: when execute_parallel returns, the result mapping holds exactly one
\* entry per agent of the pool; the entry of an agent whose execute raises is
\* {failed, error}, and the entry of every other agent is the success entry
\* it has when no agent fails (its own placeholder result for the task).
C3_ParallelIsolation ==
    JustEnded("execute_parallel") =>
        /\ ret.kind = "return"
        /\ DOMAIN ret.value = Pool
        /\ \A n \in Pool :
            ret.value[n] =
                IF ExecRaises(agents[n].config, ret.task)
                THEN [status |-> "failed",
                      error |-> ExecError(agents[n].config, ret.task)]
                ELSE [status |-> "success",
                      result |-> ExecResult(agents[n].config, ret.task)]

\* C3 witness: a parallel call on three agents has returned with one failed
\* entry between two success entries.
C3_Witness ==
    /\ JustEnded("execute_parallel")
    /\ Len(order) = 3
    /\ ret.value[order[1]].status = "success"
    /\ ret.value[order[2]].status = "failed"
    /\ ret.value[order[3]].status = "success"
\* The last two pool calls were one execute_sequential and one
\* execute_parallel, on the same pool, with the same task.
SeqAndParEnded ==
    /\ call.pc = "idle"
    /\ ret.kind = "return"
    /\ prevRet.kind = "return"
    /\ {ret.fn, prevRet.fn} = {"execute_sequential", "execute_parallel"}
    /\ ret.task = prevRet.task

\* C4: for the same pool of always-succeeding agents and the same task,
\* execute_sequential and execute_parallel return mappings with the same key
\* set and, for each key, the same status and result, whatever the order in
\* which the parallel executions complete.
C4_SequentialEqualsParallel ==
    (SeqAndParEnded /\ \A n \in Pool : ~ExecRaises(agents[n].config, ret.task))
        => /\ DOMAIN ret.value = DOMAIN prevRet.value
           /\ \A n \in DOMAIN ret.value :
                /\ ret.value[n].status = prevRet.value[n].status
                /\ ret.value[n].result = prevRet.value[n].result

\* C4 witness: both calls have returned on a pool of three succeeding agents
\* and the parallel executions did not complete in insertion order.
C4_Witness ==
    /\ SeqAndParEnded
    /\ ret.fn = "execute_parallel"
    /\ Len(order) = 3
    /\ \A n \in Pool : ret.value[n].status = "success"
    /\ trace[1][2] = order[3]

\* C5: when execute_parallel or the worker phase of execute_hierarchical
\* returns, every execution it launched has finished: no agent of the pool is
\* executing and each has appended its log record for this call.
C5_JoinBarrier ==
    [][ (call.pc \in {"par", "hier_workers"} /\ call'.pc = "idle") =>
            /\ \A n \in Pool : agents[n].state # "executing"
            /\ \A slot \in DOMAIN call.coros :
                LET n == call.coros[slot] IN
                /\ Len(agents[n].execution_log) = logAtCall[n] + 1
                /\ Last(agents[n].execution_log).task = call.task
                /\ \E k \in DOMAIN trace :
                    trace[k] = <<"end", n, call.task>>
            /\ agents' = agents
      ]_vars

\* C5 witness: a hierarchical call with two workers has returned, one worker
\* failed and one succeeded.
C5_Witness ==
    /\ JustEnded("execute_hierarchical")
    /\ "workers" \in DOMAIN ret.value
    /\ \E m, n \in DOMAIN ret.value["workers"] :
        /\ ret.value["workers"][m].status = "failed"
        /\ ret.value["workers"][n].status = "success"

\* C6: in sequential mode the agents run one at a time in insertion order:
\* when the agent inserted j-th has entered execute, every agent inserted
\* before it has finished (its record appended), and never are two agents of
\* the pool in state executing.
C6_SequentialOrder ==
    /\ Cardinality({n \in Pool : agents[n].state = "executing"}) <= 1
    /\ call.pc = "seq" =>
        \A i, j \in DOMAIN order :
            (i < j /\ Entered(order[j])) => RanOnce(order[i])

\* C6 witness: a sequential call is in flight, the third agent is executing
\* and the two before it have finished.
C6_Witness ==
    /\ call.pc = "seq"
    /\ Len(order) = 3
    /\ agents[order[3]].state = "executing"
    /\ RanOnce(order[1])
    /\ RanOnce(order[2])

\* C7: in hierarchical mode, when any worker has entered execute the
\* coordinator's execution has finished (its record appended, its state no
\* longer executing), whether it succeeded or failed.
C7_CoordinatorBarrier ==
    (call.fn = "execute_hierarchical" /\ HasCoordinator(call.coordinator, agents))
        => \A w \in Pool \ {call.coordinator.s} :
                Entered(w) => RanOnce(call.coordinator.s)

\* C7 witness: a worker is executing after the coordinator has failed.
C7_Witness ==
    /\ call.pc = "hier_workers"
    /\ HasCoordinator(call.coordinator, agents)
    /\ agents[call.coordinator.s].state = "error"
    /\ \E w \in Pool \ {call.coordinator.s} : agents[w].state = "executing"
\* The keys of the result's workers section (none when it is absent).
WorkerKeys(value) ==
    IF "workers" \in DOMAIN value THEN DOMAIN value["workers"] ELSE {}

\* C8: execute_hierarchical with an explicit coordinator c that is a member
\* of the pool: the result's coordinator.agent is c, the workers section has
\* exactly the other agents as keys, c ran on "Coordinate: " + task and every
\* worker ran on the original task.
C8_ExplicitCoordinatorPartition ==
    (/\ JustEnded("execute_hierarchical")
     /\ ret.coordArg.kind = "str"
     /\ ret.coordArg.s \in Pool)
        => LET c == ret.coordArg.s IN
           /\ "coordinator" \in DOMAIN ret.value
           /\ "agent" \in DOMAIN ret.value["coordinator"]
           /\ ret.value["coordinator"].agent = c
           /\ WorkerKeys(ret.value) = Pool \ {c}
           /\ RanOnce(c)
           /\ Last(agents[c].execution_log).task
                = Str("Coordinate: " \o Format(ret.task))
           /\ \A w \in Pool \ {c} :
                /\ RanOnce(w)
                /\ Last(agents[w].execution_log).task = ret.task

\* The workers of the hierarchical call that just ended: the agents other
\* than its coordinator.
WorkersOf(r) == IF r.coordinator.kind = "str" THEN Pool \ {r.coordinator.s} ELSE Pool

\* C9: failure isolation in hierarchical mode: the call never raises; the
\* coordinator section holds the coordinator's own outcome (its error when it
\* failed) whatever the workers did; every worker is executed, also after the
\* coordinator failed, and its entry is its own outcome ({failed, error} when
\* it failed) whatever the coordinator and the other workers did.
C9_HierarchicalIsolation ==
    JustEnded("execute_hierarchical") =>
        /\ ret.kind = "return"
        /\ HasCoordinator(ret.coordinator, agents) =>
            LET c   == ret.coordinator.s
                cfg == agents[c].config
                ct  == Str("Coordinate: " \o Format(ret.task))
                e   == ret.value["coordinator"]
            IN /\ "coordinator" \in DOMAIN ret.value
               /\ IF ExecRaises(cfg, ct)
                  THEN /\ "error" \in DOMAIN e
                       /\ "result" \notin DOMAIN e
                       /\ e.error = ExecError(cfg, ct)
                  ELSE /\ "result" \in DOMAIN e
                       /\ "error" \notin DOMAIN e
                       /\ e.result = ExecResult(cfg, ct)
        /\ \A w \in WorkersOf(ret) :
            /\ RanOnce(w)
            /\ w \in WorkerKeys(ret.value)
            /\ ret.value["workers"][w] =
                IF ExecRaises(agents[w].config, ret.task)
                THEN [status |-> "failed",
                      error |-> ExecError(agents[w].config, ret.task)]
                ELSE [status |-> "success",
                      result |-> ExecResult(agents[w].config, ret.task)]

\* C9 witness: a hierarchical call has returned, its coordinator failed, one
\* worker failed and another worker succeeded.
C9_Witness ==
    /\ JustEnded("execute_hierarchical")
    /\ "coordinator" \in DOMAIN ret.value
    /\ "error" \in DOMAIN ret.value["coordinator"]
    /\ \E m, n \in WorkerKeys(ret.value) :
        /\ ret.value["workers"][m].status = "failed"
        /\ ret.value["workers"][n].status = "success"

\* C10: AgentPool.execute with an execution_mode that is none of sequential,
\* parallel, hierarchical raises and executes no agent: no agent's
\* execution_log or state changes and no pool call is left in flight.
C10_UnknownModeRaises ==
    [][ (/\ call.pc = "idle"
         /\ budget' # budget
         /\ call'.entry # "direct"
         /\ execution_mode \notin ExecutionMode)
            => /\ ret'.kind = "raise"
               /\ ret'.fn = "execute"
               /\ call'.pc = "idle"
               /\ running' = <<>>
               /\ agents' = agents
      ]_vars

\* C10 witness: execute has raised on a pool of idle agents that never ran.
C10_Witness ==
    /\ call.pc = "idle"
    /\ ret.kind = "raise"
    /\ execution_mode \notin ExecutionMode
    /\ Len(order) >= 2
    /\ \A n \in Pool : agents[n].state = "idle" /\ agents[n].execution_log = <<>>

\* The last execute_task has ended and the caller has done nothing since.
TaskEnded == task_call.pc = "idle" /\ task_ret.kind # "none"

\* The pool execute_task(pool_name, ...) was called on cannot serve the call:
\* no pool is registered under the name, or the pool's execute raises.
TaskMustFail ==
    \/ task_ret.pool \notin DOMAIN taskSnap.pools
    \/ taskSnap.pools[task_ret.pool].execution_mode \notin ExecutionMode

\* C11: an execute_task call on an unregistered pool name or on a pool whose
\* execute raises fails; a failed call leaves execution_history as it was
\* when the call began, and every other pool (its agents, their logs and
\* states) as it was.
C11_FailedTaskLeavesNoTrace ==
    TaskEnded =>
        /\ TaskMustFail => task_ret.kind = "raise"
        /\ task_ret.kind = "raise" =>
            /\ execution_history = taskSnap.history
            /\ DOMAIN agent_pools = DOMAIN taskSnap.pools
            /\ \A q \in DOMAIN agent_pools \ {task_ret.pool} :
                    agent_pools[q] = taskSnap.pools[q]

\* A task failed inside a registered pool, after an earlier task had been
\* recorded and while another pool with agents is registered.
C11_Witness ==
    /\ TaskEnded
    /\ task_ret.kind = "raise"
    /\ task_ret.pool \in DOMAIN agent_pools
    /\ execution_history # <<>>
    /\ \E q \in DOMAIN agent_pools \ {task_ret.pool} :
            agent_pools[q].order # <<>>

\* C12: a step that ends an execute_task whose pool.execute returned appends
\* the record {pool, task, result} at the end of execution_history and
\* returns that record; no other step changes execution_history, so records
\* are never removed, reordered or changed, and total_executions is the
\* number of execute_task calls that returned.
C12_HistoryAppendOnly ==
    [][/\ IF task_call.pc = "awaiting" /\ task_call'.pc = "idle"
             /\ ret.kind = "return"
          THEN /\ task_ret'.kind = "return"
               /\ task_ret'.value = [pool |-> task_call.pool_name,
                                     task |-> task_call.task,
                                     result |-> ret.value]
               /\ execution_history' =
                    Append(execution_history, task_ret'.value)
          ELSE /\ execution_history' = execution_history
               /\ task_ret'.kind # "return"
       /\ TotalExecutions' = okTasks']_vars

\* Two tasks were recorded, the second returned last, one of them after a
\* failed call.
C12_Witness ==
    /\ TaskEnded
    /\ task_ret.kind = "return"
    /\ Len(execution_history) = 2
    /\ execution_history[2] = task_ret.value
    /\ execution_history[1] # execution_history[2]
    /\ execution_history[2].result # EmptyMap


\* ---- MemoryManager: what the calls made so far say the memory holds
Latest(S) == CHOOSE i \in S : \A j \in S : j <= i

\* The store_short_term calls for key made since the last clear_short_term.
ShortStores(key) ==
    {i \in DOMAIN memCalls :
        /\ memCalls[i].op = "store_short_term"
        /\ memCalls[i].key = key
        /\ \A j \in (i + 1)..Len(memCalls) :
                memCalls[j].op # "clear_short_term"}

\* The store_long_term calls for the pair (category, key).
LongStores(key, category) ==
    {i \in DOMAIN memCalls :
        /\ memCalls[i].op = "store_long_term"
        /\ memCalls[i].key = key
        /\ memCalls[i].category = category}

MostRecent(S) == IF S = {} THEN None ELSE memCalls[Latest(S)].value

\* The keys passed to store_long_term for category, in call order.
StoredKeys(category) ==
    LET stores == SelectSeq(memCalls,
                    LAMBDA c : c.op = "store_long_term" /\ c.category = category)
    IN  [i \in 1..Len(stores) |-> stores[i].key]

\* C15: the index of each category is the sequence of keys passed to
\* store_long_term for that category, in call order and with repeated keys
\* kept (a category never stored has no index); every key in long-term
\* storage for a category appears in that category's index.
C15_IndexIsStoreHistory ==
    /\ \A category \in Categories :
        IF StoredKeys(category) = <<>>
        THEN category \notin DOMAIN memory_index
        ELSE /\ category \in DOMAIN memory_index
             /\ memory_index[category] = StoredKeys(category)
    /\ \A category \in DOMAIN long_term :
        \A key \in DOMAIN long_term[category].data :
            /\ category \in DOMAIN memory_index
            /\ key \in Range(memory_index[category])

\* A key was stored twice in one category, another key in the other.
C15_Witness ==
    \E c1, c2 \in DOMAIN memory_index :
        /\ c1 # c2
        /\ Len(memory_index[c1]) = 2
        /\ memory_index[c1][1] = memory_index[c1][2]
        /\ memory_index[c2] # <<>>

\* The step is a clear_short_term call.
ClearStep ==
    /\ Len(memCalls') = Len(memCalls) + 1
    /\ Last(memCalls').op = "clear_short_term"

\* clear_short_term was called and store_short_term has not been since.
ClearedSince ==
    \E i \in DOMAIN memCalls :
        /\ memCalls[i].op = "clear_short_term"
        /\ \A j \in (i + 1)..Len(memCalls) :
                memCalls[j].op # "store_short_term"

\* C16: a clear_short_term step leaves long-term storage and the category
\* index as they were; from then until the next store_short_term every
\* retrieve_short_term is absent.
C16_ClearShortTermFrame ==
    [][/\ (ClearStep => (long_term' = long_term /\ memory_index' = memory_index))
       /\ (ClearedSince' =>
            /\ \A key \in MemKeys : ReadShortTerm(short_term', key) = None
            /\ (memOut'.op = "retrieve_short_term" => memOut'.result = None))
      ]_vars

\* Short-term and long-term entries were stored, the short-term memory was
\* cleared, and a retrieve_short_term followed.
C16_Witness ==
    /\ Len(memCalls) = 3
    /\ memCalls[1].op = "store_short_term"
    /\ memCalls[2].op = "store_long_term"
    /\ memCalls[3].op = "clear_short_term"
    /\ memOut.op = "retrieve_short_term"
    /\ memOut.key = memCalls[1].key
    /\ long_term # EmptyMap

\* C17: retrieve_short_term(k) returns the value of the most recent
\* store_short_term(k, v, ttl) made since the last clear_short_term, whatever
\* the ttl, and None when there is none; so it does not depend on the stores
\* to other keys.
C17_ShortTermLastWrite ==
    memOut.op = "retrieve_short_term" =>
        memOut.result = MostRecent(ShortStores(memOut.key))

\* A key was stored, then another key, then the first key again with another
\* value and a time to live; retrieve_short_term of the first key followed.
C17_Witness ==
    /\ Len(memCalls) = 3
    /\ \A i \in 1..3 : memCalls[i].op = "store_short_term"
    /\ memCalls[1].key = memCalls[3].key
    /\ memCalls[1].key # memCalls[2].key
    /\ memCalls[1].value # memCalls[3].value
    /\ memCalls[3].ttl.given
    /\ memOut.op = "retrieve_short_term"
    /\ memOut.key = memCalls[3].key
    /\ memOut.result = memCalls[3].value

\* C18: retrieve_long_term(key, category) returns the value of the most
\* recent store_long_term(key, value, category) for that (category, key)
\* pair, and None when the pair was never stored; so it does not depend on
\* what other categories hold for the key.
C18_LongTermLastWrite ==
    memOut.op = "retrieve_long_term" =>
        memOut.result = MostRecent(LongStores(memOut.key, memOut.category))

\* A key was stored twice in one category and, between the two, with another
\* value in the other category; retrieve_long_term of the first followed.
C18_Witness ==
    /\ Len(memCalls) = 3
    /\ \A i \in 1..3 : memCalls[i].op = "store_long_term"
    /\ \A i \in 1..3 : memCalls[i].key = memCalls[1].key
    /\ memCalls[1].category = memCalls[3].category
    /\ memCalls[2].category # memCalls[3].category
    /\ memCalls[1].value = memCalls[2].value
    /\ memCalls[3].value # memCalls[2].value
    /\ memOut.op = "retrieve_long_term"
    /\ memOut.key = memCalls[1].key
    /\ memOut.category = memCalls[1].category
    /\ memOut.result = memCalls[3].value

\* The pairs a search of (query, category) must find.
Matching(query, category) ==
    {<<key, MostRecent(LongStores(key, category))>> :
        key \in {k \in MemKeys : /\ LongStores(k, category) # {}
                                 /\ Contains(Lower(query), Lower(k))}}

\* C19: search_memory(query, category) returns the (key, value) pairs of the
\* category whose key contains query as a case-insensitive substring, each
\* key once, none from another category; a category never stored yields the
\* empty list.
C19_SearchByKey ==
    memOut.op = "search_memory" =>
        /\ Range(memOut.result) = Matching(memOut.key, memOut.category)
        /\ Len(memOut.result) = Cardinality(Range(memOut.result))
        /\ (\A key \in MemKeys : LongStores(key, memOut.category) = {})
                => memOut.result = <<>>

\* A search for "B" found the key "Ab" stored twice in its category and left
\* out the key "b" stored only in the other category.
C19_Witness ==
    /\ memOut.op = "search_memory"
    /\ memOut.key = "B"
    /\ Len(memOut.result) = 1
    /\ memOut.result[1][1] = "Ab"
    /\ memOut.category \in DOMAIN memory_index
    /\ Len(memory_index[memOut.category]) = 2
    /\ \E category \in DOMAIN long_term \ {memOut.category} :
            "b" \in DOMAIN long_term[category].data


\* C20: evaluate_output(output, {}) returns, for every output, an evaluation
\* with overall_score 0.0 and empty criteria_scores, it does not raise, and
\* it appends that evaluation to evaluation_history.
C20_EmptyCriteria ==
    [][(evalOut'.op = "evaluate_output" /\ evalOut'.criteria = EmptyMap) =>
            /\ evalOut'.kind = "return"
            /\ evalOut'.result.overall_score = 0
            /\ evalOut'.result.criteria_scores = EmptyMap
            /\ evaluation_history' =
                    Append(evaluation_history, evalOut'.result)]_vars

\* A long output was evaluated against no criteria, after an evaluation
\* that scored.
C20_Witness ==
    /\ evalOut.op = "evaluate_output"
    /\ evalOut.criteria = EmptyMap
    /\ Len(evalOut.output) > ScoreScale
    /\ Len(evaluation_history) = 2
    /\ evaluation_history[1].overall_score > 0
    /\ evaluation_history[2] = evalOut.result

RECURSIVE SumOver(_, _)
\* The sum of f over the set S.
SumOver(f, S) ==
    IF S = {} THEN 0
    ELSE LET x == CHOOSE y \in S : TRUE IN f[x] + SumOver(f, S \ {x})

\* C21: with non-empty criteria, evaluate_output scores every criterion
\* min(len(output)/1000, 1), which is 1 for an output of 1000 characters or
\* more, and overall_score is the mean of the criterion scores; every record
\* in evaluation_history has an overall_score within [0, 1].
C21_ScoreIsCappedLength ==
    /\ (evalOut.op = "evaluate_output" /\ evalOut.criteria # EmptyMap) =>
        LET scores == evalOut.result.criteria_scores
            n == Cardinality(DOMAIN evalOut.criteria)
        IN  /\ evalOut.kind = "return"
            /\ DOMAIN scores = DOMAIN evalOut.criteria
            /\ \A c \in DOMAIN scores :
                    /\ Len(evalOut.output) < ScoreScale
                            => scores[c] = Len(evalOut.output)
                    /\ Len(evalOut.output) >= ScoreScale
                            => scores[c] = ScoreScale
            /\ evalOut.result.overall_score * n = SumOver(scores, DOMAIN scores)
    /\ \A i \in DOMAIN evaluation_history :
            evaluation_history[i].overall_score \in 0..ScoreScale

\* An output longer than 1000 characters was scored against three criteria,
\* after a shorter one.
C21_Witness ==
    /\ evalOut.op = "evaluate_output"
    /\ Cardinality(DOMAIN evalOut.criteria) = 3
    /\ Len(evalOut.output) > ScoreScale
    /\ evalOut.result.overall_score = ScoreScale
    /\ Len(evaluation_history) = 2
    /\ evaluation_history[1].overall_score \in 1..(ScoreScale - 1)

\* C22: batch_evaluate(outputs, criteria) returns one evaluation per output,
\* in input order, each the evaluation evaluate_output builds for that
\* output alone; average_score is the mean of their overall scores, 0 for
\* no outputs; the evaluations are appended to evaluation_history, one per
\* output.
C22_BatchEvaluate ==
    [][evalOut'.op = "batch_evaluate" =>
        LET outputs == evalOut'.outputs
            evaluations == evalOut'.result.evaluations
            average == evalOut'.result.average_score
        IN  /\ evalOut'.kind = "return"
            /\ Len(evaluations) = Len(outputs)
            /\ \A i \in DOMAIN outputs :
                    evaluations[i] =
                        Evaluation(outputs[i], evalOut'.criteria).value
            /\ average.den > 0
            /\ outputs = <<>> => average.num = 0
            /\ outputs # <<>> =>
                    average.num * Len(outputs) =
                        SumScores(evaluations) * average.den
            /\ Len(evaluation_history') =
                    Len(evaluation_history) + Len(outputs)
            /\ evaluation_history' = evaluation_history \o evaluations]_vars

\* A batch of two outputs with different scores was evaluated.
C22_Witness ==
    /\ evalOut.op = "batch_evaluate"
    /\ Len(evalOut.outputs) = 2
    /\ evalOut.criteria # EmptyMap
    /\ evalOut.result.evaluations[1].overall_score
            < evalOut.result.evaluations[2].overall_score
    /\ evaluation_history = evalOut.result.evaluations


\* ---- SwarmGraph
\* The last run has returned and the caller has done nothing since.
RunEnded == node = "none" /\ runOut.kind = "return"

\* The keys filed under the long-term category "tasks".
TaskKeys(lt) == IF "tasks" \in DOMAIN lt THEN DOMAIN lt["tasks"].data ELSE {}

\* C13: a run that has returned handed back a state with status completed,
\* the task it was given, and exactly two messages, the human message
\* carrying the task and then the completion message; long-term category
\* "tasks" holds a key it did not hold when the run began.
C13_FullRun ==
    RunEnded =>
        /\ runOut.value.status = "completed"
        /\ runOut.value.task = runOut.task
        /\ Len(runOut.value.messages) = 2
        /\ runOut.value.messages[1] = HumanMessage(runOut.task)
        /\ runOut.value.messages[2].type = "ai"
        /\ TaskKeys(long_term) \ TaskKeys(ltAtRun) # {}

\* The third run, of a task longer than the completion message quotes, has
\* returned.
C13_Witness ==
    /\ RunEnded
    /\ Len(runOut.task.s) > TaskHeadLen
    /\ Cardinality(TaskKeys(ltAtRun)) = 2
    /\ Cardinality(TaskKeys(long_term)) = 3

StatusPath ==
    <<"initialized", "input_processed", "agents_executed", "evaluated",
      "memory_updated", "completed">>

\* C14: the values the status takes within a run are, at every point of the
\* run, the first values of initialized, input_processed, agents_executed,
\* evaluated, memory_updated, completed, the status being the last of them;
\* a run that has returned has taken all six, and every run that starts
\* returns with status completed.
C14_StatusPath ==
    /\ [](/\ Len(statuses) <= Len(StatusPath)
          /\ statuses = SubSeq(StatusPath, 1, Len(statuses))
          /\ (node \notin {"none", "END"} => state.status = Last(statuses))
          /\ (node = "END" => state.status = "completed")
          /\ (RunEnded => /\ statuses = StatusPath
                          /\ runOut.value.status = "completed"))
    /\ (runOut.kind = "running" ~> (RunEnded /\ statuses = StatusPath))

\* A second run has returned after all six values.
C14_Witness ==
    /\ RunEnded
    /\ statuses = StatusPath
    /\ Len(evaluation_history) = 2


\* C23: get_execution_stats changes nothing of the agent; it reports
\* total_executions as the length of execution_log, successful and failed
\* adding up to it, and avg_duration as total_duration / total_executions,
\* or 0, without failing, when the log is empty.
C23_ExecutionStats ==
    [][statsOut'.op = "get_execution_stats" =>
        LET stats == statsOut'.value
            ag == agents[stats.agent_name]
        IN  /\ statsOut'.kind = "return"
            /\ agents' = agents
            /\ durations' = durations
            /\ stats.total_executions = Len(ag.execution_log)
            /\ stats.successful + stats.failed = stats.total_executions
            /\ stats.total_duration = SumSeq(durations[stats.agent_name])
            /\ stats.avg_duration.den > 0
            /\ IF ag.execution_log = <<>>
               THEN stats.avg_duration.num = 0
               ELSE stats.avg_duration.num * stats.total_executions
                        = stats.total_duration * stats.avg_duration.den]_vars

\* The statistics of an agent were read after one of its executions
\* succeeded and one failed; another agent of the pool has an empty log.
C23_Witness ==
    /\ statsOut.op = "get_execution_stats"
    /\ statsOut.value.successful = 1
    /\ statsOut.value.failed = 1
    /\ statsOut.value.total_duration > 0
    /\ \E n \in DOMAIN agents : agents[n].execution_log = <<>>


\* C25: an execution that took longer than its agent's AgentConfig.timeout
\* is recorded in the agent's execution_log as failed.  (The source never
\* reads the timeout: the execution is logged as completed.)
C25_TimeoutEnforced ==
    \A n \in DOMAIN agents :
        \A i \in DOMAIN agents[n].execution_log :
            durations[n][i] > agents[n].config.timeout
                => agents[n].execution_log[i].status = "failed"


\* The Agent.execute coroutines in flight on agent n.
InFlightOn(n) == {f \in inflight : callers[f[1]].coros[f[2]] = n}

\* The Agent.execute coroutines on agent n that have ended.
EndedOn(n) ==
    {f \in LoopCallers \X (1..Len(order)) :
        /\ f[2] \in DOMAIN callers[f[1]].responses
        /\ callers[f[1]].coros[f[2]] = n}

\* C24: when pool.execute calls overlap, at most one Agent.execute is in
\* flight on an agent at any time; the agent is in state "executing" exactly
\* while one is, and its log holds one record for each execute that ended:
\* the executions on one agent are serialized.
C24_OneExecutionInFlight ==
    \A n \in DOMAIN agents :
        /\ Cardinality(InFlightOn(n)) <= 1
        /\ agents[n].state = "executing" <=> InFlightOn(n) # {}
        /\ Len(agents[n].execution_log) = Cardinality(EndedOn(n))
        /\ \A f \in EndedOn(n) :
                \E i \in DOMAIN agents[n].execution_log :
                    agents[n].execution_log[i].task = callers[f[1]].task

\* Both calls are waiting in their gather, with different tasks; an agent
\* has finished for one of them and is executing for the other.
C24_Witness ==
    /\ \A c \in LoopCallers : callers[c].pc = "waiting"
    /\ callers[1].task # callers[2].task
    /\ \E n \in DOMAIN agents :
            /\ EndedOn(n) # {}
            /\ InFlightOn(n) # {}
            /\ \A f \in EndedOn(n), g \in InFlightOn(n) : f[1] # g[1]


\* The run in flight, or the last one made, was given a task that makes a
\* stage raise.
RunMustRaise == runOut.kind # "none" /\ runOut.task.kind # "str"

\* C26: a stage that raises ends the run: the next thing to happen is that
\* run raises to its caller, who gets no state, with no stage executed in
\* between and none executed again; a run whose task makes a stage raise
\* never returns, never reaches evaluation, memory_update or
\* aggregate_results, leaves no evaluation record and no long-term entry,
\* and passes through each stage at most once.
C26_StageFailureFatal ==
    [][/\ node = "raised"
            => /\ node' = "none"
               /\ runOut'.kind = "raise"
               /\ runOut'.value = NoState
               /\ UNCHANGED <<statuses, memVars, evalVars>>
       /\ RunMustRaise'
            => /\ runOut'.kind \in {"running", "raise"}
               /\ node' \in {"process_input", "agent_execution", "raised",
                             "none"}
               /\ node' = "none" <=> runOut'.kind = "raise"
               /\ Len(statuses') <= 3
               /\ \A i \in DOMAIN statuses' : statuses'[i] = StatusPath[i]
               /\ long_term' = ltAtRun'
               /\ Len(evaluation_history')
                    = Cardinality(TaskKeys(ltAtRun'))]_vars

\* After a run that completed, a run was given None: its message was built,
\* agent_execution raised on the slice, and run has raised to the caller.
C26_Witness ==
    /\ node = "none"
    /\ runOut.kind = "raise"
    /\ runOut.task = None
    /\ statuses = <<"initialized", "input_processed", "agents_executed">>
    /\ TaskKeys(long_term) # {}


\* A create_pool call has been made: the orchestrator is idle before and
\* after, and the outcome of the last execute_task has been put aside.
CreateStep ==
    /\ task_call.pc = "idle"
    /\ task_call'.pc = "idle"
    /\ task_ret'.kind = "none"
    /\ <<agent_pools, task_ret, taskSnap>>' # <<agent_pools, task_ret, taskSnap>>

\* C27: create_pool(name) leaves name registered with a new empty pool and
\* every other name with the pool it had, so that the pools do not grow in
\* number when name was registered; an execute_task that found the pool
\* empty and returned ran no agent: its record carries no results and the
\* registered pool is still the empty one.
C27_CreatePoolReplaces ==
    [][/\ CreateStep
            => \E name \in PoolNames :
                    /\ DOMAIN agent_pools' = DOMAIN agent_pools \cup {name}
                    /\ agent_pools'[name] = NewPool
                    /\ \A other \in DOMAIN agent_pools \ {name} :
                            agent_pools'[other] = agent_pools[other]
                    /\ name \in DOMAIN agent_pools
                            => Cardinality(DOMAIN agent_pools')
                                = Cardinality(DOMAIN agent_pools)
       /\ (/\ task_call.pc = "awaiting"
           /\ task_ret'.kind = "return"
           /\ taskSnap.pools[task_ret'.pool] = NewPool)
            => /\ task_ret'.value.result = EmptyMap
               /\ agent_pools'[task_ret'.pool] = NewPool]_vars

\* Two tasks were run on one name: the first on a pool with agents, which
\* reported results; then the pool was replaced, and the second task ran on
\* the new pool and reported none.
C27_Witness ==
    /\ Len(execution_history) = 2
    /\ execution_history[1].pool = execution_history[2].pool
    /\ execution_history[1].result # EmptyMap
    /\ execution_history[2].result = EmptyMap
    /\ agent_pools[execution_history[2].pool] = NewPool


\* The store_long_term calls made so far, in order: in a pipeline nobody
\* else writes to, one by the memory_update of each run.
Filings == SelectSeq(memCalls, LAMBDA c : c.op = "store_long_term")

\* The runs started so far and the runs that have gone through memory_update.
RunsStarted == MaxRuns - runs

RunsFiled ==
    IF node \in {"process_input", "agent_execution", "evaluation",
                 "memory_update"}
    THEN RunsStarted - 1 ELSE RunsStarted

\* C29: the k-th run, counting from 0, files its record under task_k in
\* category "tasks" (so the index goes up by one from run to run), and
\* after n runs "tasks" holds exactly the n keys task_0 .. task_(n-1).
C29_CountBasedKeys ==
    /\ Len(Filings) = RunsFiled
    /\ \A k \in 0..(RunsFiled - 1) :
            /\ Filings[k + 1].key = "task_" \o ToString(k)
            /\ Filings[k + 1].category = "tasks"
    /\ TaskKeys(long_term) = {"task_" \o ToString(k) : k \in 0..(RunsFiled - 1)}
    /\ Cardinality(TaskKeys(long_term)) = RunsFiled

\* Three runs have returned; the third filed its record under task_2.
C29_Witness ==
    /\ RunEnded
    /\ RunsFiled = 3
    /\ Filings[3].key = "task_2"
    /\ Filings[3].value.task = runOut.task


\* C28: a state that a run has returned is not changed by a later run on
\* the same SwarmGraph: its holder reads in it what it held when the run
\* returned.  (In the source the long-term snapshot shares its category
\* dicts with the MemoryManager: the next run's memory_update adds its
\* record to the "tasks" dict of every state returned before.)
C28_ReturnedStateUnchanged ==
    \A i \in DOMAIN returned : Held(returned[i]) = returned[i]


\* Both threads are through memory_update.
RaceOver == \A r \in Racers : racers[r].pc = "stored"

\* A thread read the count while another stood between its own read and
\* its store.
Interleaved == \E r \in Racers : racers[r].overlap

\* The store_long_term call made last.
LastFiling == Filings[Len(Filings)]

\* C30: when two runs on one SwarmGraph went through memory_update on two
\* threads and one read the count between the other's read and store, both
\* filed under the same key, the record stored last is the one kept, and
\* "tasks" holds fewer entries than runs were made; when the two did not
\* interleave so, the keys differ and "tasks" holds one entry per run.
C30_CountKeysCollide ==
    RaceOver =>
        IF Interleaved
        THEN /\ racers[1].key = racers[2].key
             /\ long_term["tasks"].data[racers[1].key].value = LastFiling.value
             /\ Cardinality(TaskKeys(long_term)) = Len(evaluation_history) - 1
             /\ Cardinality(TaskKeys(long_term)) < Len(evaluation_history)
        ELSE /\ racers[1].key # racers[2].key
             /\ Cardinality(TaskKeys(long_term)) = Len(evaluation_history)

\* After an earlier run, two runs with different tasks interleaved: both
\* filed under task_1, and the record of the one that stored first is gone.
C30_Witness ==
    /\ RaceOver
    /\ Interleaved
    /\ racers[1].state.task # racers[2].state.task
    /\ racers[1].key = "task_1"
    /\ racers[2].key = "task_1"
    /\ Len(evaluation_history) = 3
    /\ TaskKeys(long_term) = {"task_0", "task_1"}
    /\ Filings[1].value # long_term["tasks"].data["task_1"].value


\* C31: when a hierarchical call on a non-empty pool has returned with a
\* coordinator section, the section names the coordinator (field agent, the
\* agent that ran on the coordination task) next to its result or its
\* error.  (In the source the except branch stores the error alone; the
\* section of a coordinator that failed has no agent field.)
C31_CoordinatorSectionNamesAgent ==
    (/\ JustEnded("execute_hierarchical")
     /\ Pool # {}
     /\ "coordinator" \in DOMAIN ret.value)
        => LET e == ret.value["coordinator"] IN
           /\ "agent" \in DOMAIN e
           /\ e.agent = ret.coordinator.s
           /\ ("result" \in DOMAIN e) # ("error" \in DOMAIN e)


\* A hierarchical call that was given no coordinator has returned on a pool
\* that is not empty.
DefaultCoordinatorEnded ==
    /\ JustEnded("execute_hierarchical")
    /\ ret.coordArg = None
    /\ order # <<>>

\* The agent inserted first ran once, on the coordination task, and has the
\* coordinator section; every other agent ran once, on the task itself, and
\* the workers section has exactly the other agents.
FirstCoordinates ==
    LET c == order[1] IN
    /\ "coordinator" \in DOMAIN ret.value
    /\ RanOnce(c)
    /\ Last(agents[c].execution_log).task = CoordinationTask(ret.task)
    /\ WorkerKeys(ret.value) = Pool \ {c}
    /\ \A w \in Pool \ {c} :
            /\ RanOnce(w)
            /\ Last(agents[w].execution_log).task = ret.task

\* C32: a hierarchical call without a coordinator argument, made directly
\* or through AgentPool.execute, on a non-empty pool uses the agent inserted
\* first as coordinator and all other agents as workers.  (In the source an
\* agent named "" that was inserted first is taken for no coordinator at
\* all: it is neither coordinator nor worker and never runs.)
C32_DefaultCoordinatorIsFirst == DefaultCoordinatorEnded => FirstCoordinates


\* C33: a hierarchical call on an empty pool executes nothing while it is
\* in flight and returns, without raising, a result that has neither a
\* coordinator section nor a workers section, whatever coordinator it was
\* given.
C33_HierarchicalOnEmptyPool ==
    /\ (call.fn = "execute_hierarchical" /\ order = <<>>)
            => running = <<>> /\ trace = <<>> /\ call.coros = <<>>
    /\ (JustEnded("execute_hierarchical") /\ order = <<>>)
            => /\ ret.kind = "return"
               /\ "coordinator" \notin DOMAIN ret.value
               /\ "workers" \notin DOMAIN ret.value
               /\ DOMAIN ret.value = {}
               /\ trace = <<>>
               /\ agents = EmptyMap

\* AgentPool.execute in hierarchical mode has returned on an empty pool.
C33_Witness ==
    /\ JustEnded("execute_hierarchical")
    /\ ret.entry = "execute"
    /\ ret.kind = "return"
    /\ order = <<>>
    /\ execution_mode = "hierarchical"


\* An AgentPool.execute call has returned.
ExecuteEnded ==
    /\ call.pc = "idle"
    /\ ret.kind = "return"
    /\ ret.entry = "execute"

\* Every agent of the pool ran exactly once in the call, and the agent that
\* ran as coordinator has no entry among the workers.
EachRanOnce ==
    /\ \A n \in Pool : RanOnce(n)
    /\ \A n \in Pool :
            Cardinality({k \in DOMAIN trace : trace[k][1] = "start"
                                              /\ trace[k][2] = n}) = 1
    /\ HasCoordinator(ret.coordinator, agents)
            => ret.coordinator.s \notin WorkerKeys(ret.value)

\* C34: when an AgentPool.execute call has returned, in whichever mode,
\* every agent of the pool has executed exactly once in it (its log is one
\* record longer than when the call began), and the coordinator of a
\* hierarchical call did not run as a worker too.  (In the source a first
\* agent named "" does not run at all in hierarchical mode.)
C34_EachAgentOnce == ExecuteEnded => EachRanOnce


\* C35: when execute_parallel has returned, the entry under each name N of
\* the mapping is the outcome of the execution the call launched on agent
\* N, also when add_agent or remove_agent changed the pool while the call
\* waited.  (The source zips the responses with the pool's keys as they are
\* after the wait: once an agent was removed, the entries of the agents
\* after it are outcomes of other agents' executions.)
C35_ParallelAttribution ==
    LET c == callers[Gatherer] IN
    c.pc = "done" =>
        \A n \in DOMAIN c.results :
            \E slot \in DOMAIN c.coros :
                /\ c.coros[slot] = n
                /\ c.results[n] = StatusEntry(c.responses[slot])


\* A hierarchical call given a coordinator name that no agent of the pool
\* has, has ended.
AbsentCoordinatorEnded ==
    /\ JustEnded("execute_hierarchical")
    /\ ret.coordArg.kind = "str"
    /\ ret.coordArg.s \notin Pool

\* The call returned without a coordinator section, no execution was on the
\* coordination task, and every agent of the pool ran once, as a worker, on
\* the task itself.
AllAreWorkers ==
    /\ ret.kind = "return"
    /\ "coordinator" \notin DOMAIN ret.value
    /\ \A k \in DOMAIN trace : trace[k][3] # CoordinationTask(ret.task)
    /\ WorkerKeys(ret.value) = Pool
    /\ \A n \in Pool :
            /\ RanOnce(n)
            /\ Last(agents[n].execution_log).task = ret.task

\* C36: execute_hierarchical with an explicit coordinator name that is not
\* in the pool raises nothing, returns no coordinator section, gives no
\* agent the coordination task and runs every agent as a worker on the
\* original task.  (In the source the name "" counts as no coordinator
\* given: the first agent coordinates.)
C36_AbsentCoordinator == AbsentCoordinatorEnded => AllAreWorkers


\* C37: an Agent.execute call is taken whatever the agent's state; it keeps
\* the records the log had, failed ones included, and adds one, and it
\* leaves the agent idle when it succeeded and in state error when it
\* failed, whatever the earlier executions did: an agent is in state error
\* exactly when its latest execution failed.
C37_ErrorNotAbsorbing ==
    [][\A n \in DOMAIN agents :
          /\ agents'[n] # agents[n]
                => LET rec == Last(agents'[n].execution_log) IN
                   /\ agents[n].state \in {"idle", "error"}
                   /\ agents'[n].execution_log
                        = Append(agents[n].execution_log, rec)
                   /\ rec.status = "completed" <=> agents'[n].state = "idle"
                   /\ rec.status = "failed" <=> agents'[n].state = "error"
          /\ agents'[n].state = "error"
                <=> /\ agents'[n].execution_log # <<>>
                    /\ Last(agents'[n].execution_log).status = "failed"]_vars

\* An agent failed, then succeeded: it is idle and its log holds the failed
\* record before the completed one.
C37_Witness ==
    \E n \in DOMAIN agents :
        /\ Len(agents[n].execution_log) = 2
        /\ agents[n].execution_log[1].status = "failed"
        /\ agents[n].execution_log[2].status = "completed"
        /\ agents[n].state = "idle"


\* C38: when memory_update has run, category "tasks" holds one key more
\* than when the run began and every entry it held then is as it was, also
\* when the caller has stored keys of its own in "tasks".  (In the source
\* the key is task_<number of entries>: a caller's entry under that key is
\* overwritten and the number of keys stays.)
C38_MemoryUpdateAddsOneKey ==
    node \in {"aggregate_results", "END"} =>
        /\ Cardinality(TaskKeys(long_term))
                = Cardinality(TaskKeys(ltAtRun)) + 1
        /\ \A k \in TaskKeys(ltAtRun) :
                long_term["tasks"].data[k] = ltAtRun["tasks"].data[k]


\* AgentPool.get_pool_stats()["total_agents"]
TotalAgents(pool) == Cardinality(DOMAIN pool)

\* C39: add_agent with a name the pool has puts a fresh agent (empty log,
\* empty memory, state idle) in that name's place: the number of agents,
\* the insertion order and every other agent stay as they were;
\* remove_agent with a name the pool does not have changes neither the
\* agents nor their order.
C39_AddReplacesRemoveIgnores ==
    [][/\ \A name \in MemberNames, role \in RoleInputs :
            (AddAgent(name, role) /\ name \in DOMAIN agents)
                => /\ agents'[name].execution_log = <<>>
                   /\ agents'[name].memory = <<>>
                   /\ agents'[name].state = "idle"
                   /\ agents'[name].config = AgentConfig(name, role)
                   /\ TotalAgents(agents') = TotalAgents(agents)
                   /\ order' = order
                   /\ \A other \in DOMAIN agents \ {name} :
                            agents'[other] = agents[other]
       /\ \A name \in MemberNames :
            (RemoveAgent(name) /\ name \notin DOMAIN agents)
                => /\ agents' = agents
                   /\ order' = order
                   /\ execution_mode' = execution_mode]_vars

\* A fresh agent stands where an agent with a log record and a memory
\* entry stood, next to an agent that has kept its record.
C39_Witness ==
    /\ order = <<"A", "B">>
    /\ agents["A"] = NewAgent(agents["A"].config)
    /\ agents["B"].execution_log # <<>>
    /\ agents["B"].memory # <<>>
    /\ ret.kind = "none"


\* The three functions AgentPool.execute dispatches to.
ModeFunctions ==
    {"execute_sequential", "execute_parallel", "execute_hierarchical"}

\* C40: a pool call in flight, in each of the three modes, eventually
\* hands its results to its caller, whatever its agents' executions end
\* with.
C40_ExecuteReturns ==
    \A fn \in ModeFunctions :
        (call.pc # "idle" /\ call.fn = fn)
            ~> (call.pc = "idle" /\ ret.kind = "return" /\ ret.fn = fn)

\* A hierarchical execute has returned from both of its waits, on a
\* coordinator and on two workers that have all failed.
C40_Witness ==
    /\ call.pc = "idle"
    /\ ret.kind = "return"
    /\ ret.entry = "execute"
    /\ ret.fn = "execute_hierarchical"
    /\ DOMAIN ret.value = {"coordinator", "workers"}
    /\ DOMAIN ret.value["coordinator"] = {"error"}
    /\ Cardinality(DOMAIN ret.value["workers"]) = 2
    /\ \A n \in DOMAIN ret.value["workers"] :
            ret.value["workers"][n].status = "failed"

====
